---------------------------- MODULE Spec2Model ----------------------------
(***************************************************************************)
(* A model of the asynchronous log-delivery pipeline of                    *)
(* mwat56/apachelogger (src/apachelogger.go): the two package-level        *)
(* message channels, the sender goroutines started by Log, Err,            *)
(* tLogLog.Write and the handler returned by Wrap, the once-only           *)
(* initialisation done by Wrap, and the consumer goroutines goDoLogWrite   *)
(* and goIgnoreLog.                                                        *)
(*                                                                         *)
(* Time is abstract.  A goroutine step is one action; steps of one         *)
(* goroutine that touch no shared state are merged into the preceding      *)
(* step.  The expiry of closeTimer is merged into the select that reads    *)
(* it, and an expiry that happened unobserved while the writer was busy    *)
(* is the "stale" value a later Reset may leave in closeTimer.C.           *)
(***************************************************************************)
EXTENDS Naturals, Sequences, FiniteSets

(***************************************************************************)
(* Bounds of the model.                                                    *)
(***************************************************************************)
\* Number of messages dispatched in one behaviour.
MaxMsgs == 2
\* Capacity of a message channel in the model (the program uses
\* alDefaultChannelBufferSize = 128, src/apachelogger.go:51).
QueueCap == 1
\* Number of midnights that pass in one behaviour.
MaxDay == 1

(***************************************************************************)
(* The two channel objects made at package initialisation (lines 76, 85),  *)
(* named after the variable that first holds them.                         *)
(***************************************************************************)
Chans == {"access", "error"}

\* Destination names an application passes to Wrap, and what they resolve to.
AccessNames == {"", "access.log"}
ErrorNames == {"", "./access.log", "/var/log/error.log"}
AbsPaths == {"/srv/access.log", "/var/log/error.log"}

\* A path is absolute when it starts with the separator.
IsAbs(p) == p = "/var/log/error.log"

\* filepath.Abs: an absolute path is cleaned, a relative one is joined to
\* the working directory; when the working directory cannot be determined
\* the result is "" and an error, which lines 553 and 568 drop.
Abs(p, wdOk) ==
    IF IsAbs(p) THEN p
    ELSE IF ~wdOk THEN ""
    ELSE IF p \in {"access.log", "./access.log"} THEN "/srv/access.log"
    ELSE ""

\* Kinds of log entries: Log, Err, the server's error logger, the panic
\* guard's entry and a request's access entry.
Kinds == {"LOG", "ERR", "errorLogger", "catchPanic", "request"}
\* What the downstream handler of a request does.
Outcomes == {"return", "panic"}
NoMsg == [id |-> 0, kind |-> "none"]
\* The blank line compareDayStamps makes the writer prepend ("\n" + txt).
Blank == [id |-> 0, kind |-> "blank"]

VARIABLES
    queue,              \* the channels: buffer, closed flag, buffer at close
    enq,                \* per channel: the messages enqueued so far, in order
    alErrorQueue,       \* the channel the variable alErrorQueue refers to
    alWrapOnce,         \* whether alWrapOnce.Do has run its function
    handler,            \* whether Wrap has returned a handler
    fault,              \* "none", "fatal" (log.Fatalf) or "panic" (unrecovered)
    consumer,           \* per channel: "none", "writer" or "ignore"
    wr,                 \* per channel: the locals of goDoLogWrite
    files,              \* per path: the lines appended so far
    senders,            \* the goroutines goCustomLog/goWebLog not yet done
    nextId,             \* number of messages dispatched so far, plus one
    gone,               \* messages dropped by a failed send or by goIgnoreLog,
                        \* with the channel and whether it was full
    today,              \* the calendar day of time.Now()
    alLastLoggingDate,  \* the calendar day stored in alLastLoggingDate
    requests,           \* number of requests served, by outcome
    failedDest,         \* sinks whose destination Wrap could not open
    dest,               \* per sink: the destination as Wrap resolved it
    lw,                 \* a tLogWriter: its fields status and size
    calls,              \* the calls made on lw so far, with what they returned
    call                \* a call of a formatting function: arguments, result

\* The variables of the helper functions and of tLogWriter, which the
\* queues and their goroutines do not touch.
unitVars == <<lw, calls, call>>

vars == <<queue, enq, alErrorQueue, alWrapOnce, handler, fault, consumer, wr,
          files, senders, nextId, gone, today, alLastLoggingDate, requests,
          failedDest, dest, unitVars>>

\* No call made yet.
NoCall == [fn |-> "none", arg |-> <<>>, out |-> <<>>]

\* Line 601: lw := &tLogWriter{aWriter, 0, 0, time.Now()}.
NewLogWriter == [status |-> 0, size |-> 0]

\* alAccessQueue is never reassigned.
alAccessQueue == "access"

\* The locals of a goDoLogWrite that has not been started.
NoWriter ==
    [pc |-> "off", aLogFile |-> "", logFile |-> "nil", txt |-> <<>>,
     cLen |-> 0, closeTimer |-> "nil", failed |-> FALSE]

Init ==
    /\ queue = [c \in Chans |->
                  [buf |-> <<>>, closed |-> FALSE, atClose |-> <<>>]]
    /\ enq = [c \in Chans |-> <<>>]
    /\ alErrorQueue = "error"
    /\ alWrapOnce = FALSE
    /\ handler = FALSE
    /\ fault = "none"
    /\ consumer = [c \in Chans |-> "none"]
    /\ wr = [c \in Chans |-> NoWriter]
    /\ files = [p \in AbsPaths |-> <<>>]
    /\ senders = {}
    /\ nextId = 1
    /\ gone = {}
    /\ today = 0
    /\ alLastLoggingDate = 0
    /\ requests = [o \in Outcomes |-> 0]
    /\ failedDest = {}
    /\ dest = [c \in Chans |-> ""]
    /\ lw = NewLogWriter
    /\ calls = <<>>
    /\ call = NoCall

Running == fault = "none"

QueueFull(c) == Len(queue[c].buf) >= QueueCap

\* The consumer of channel c takes nothing from it: there is none yet, or
\* the writer still sleeps alInitDelay or is in the open-retry loop.
Stalled(c) ==
    \/ consumer[c] = "none"
    \/ consumer[c] = "writer" /\ wr[c].pc \in {"init", "open"}

(***************************************************************************)
(* Producers.                                                              *)
(***************************************************************************)
\* A dispatch that sends in the caller's goroutine: the call waits for
\* room in the channel.
DispatchBlocking(kind, c) ==
    /\ nextId <= MaxMsgs
    /\ ~QueueFull(c)
    /\ senders' = senders \cup
          {[m |-> [id |-> nextId, kind |-> kind], ch |-> c, onFull |-> FALSE]}
    /\ nextId' = nextId + 1

\* The statement `go goCustomLog(...)` / `go goWebLog(...)`: the channel
\* argument is evaluated by the caller, the goroutine runs later.
Dispatch(kind, c) ==
    /\ nextId <= MaxMsgs
    /\ senders' = senders \cup
          {[m |-> [id |-> nextId, kind |-> kind], ch |-> c,
            onFull |-> QueueFull(c) /\ Stalled(c)]}
    /\ nextId' = nextId + 1

\* What a call that only starts a sender goroutine leaves alone.
callerFrame == <<unitVars, queue, enq, alErrorQueue, alWrapOnce, handler, fault, consumer,
                 wr, files, gone, today, alLastLoggingDate, failedDest, dest>>

Log ==
    /\ Running
    /\ Dispatch("LOG", alAccessQueue)
    /\ UNCHANGED <<callerFrame, requests>>

Err ==
    /\ Running
    /\ Dispatch("ERR", alErrorQueue)
    /\ UNCHANGED <<callerFrame, requests>>

\* tLogLog.Write: an empty message starts no goroutine.
MsgLens == {0, 1}

\* A sink that starts a goroutine for an empty message too.
tLogLogStartAlways(n) ==
    /\ Running
    /\ Dispatch("errorLogger", alErrorQueue)

\* Lines 149-153: `go goCustomLog("errorLogger", ..., "ERR", ...,
\* alErrorQueue)` for a message of n > 0 bytes.
tLogLogStart(n) ==
    /\ Running
    /\ IF 0 < n
       THEN Dispatch("errorLogger", alErrorQueue)
       ELSE UNCHANGED <<senders, nextId>>

tLogLogWrite(n) ==
    /\ tLogLogStart(n)
    /\ UNCHANGED <<callerFrame, requests>>

\* A wrapped handler without the deferred recover(): the panic goes on.
CatchPanicNoRecover ==
    /\ fault' = "panic"
    /\ UNCHANGED <<senders, nextId>>

\* The deferred function of the wrapped handler (lines 590-597), when
\* recover() returns a panic value: the panic stops there and Err
\* dispatches the entry of the panic guard.
CatchPanic ==
    /\ Dispatch("catchPanic", alErrorQueue)
    /\ fault' = fault

\* The handler returned by Wrap (lines 589-603), for a downstream handler
\* that returns, or that panics with some value.  When it returns,
\* recover() yields nil and the access entry is dispatched.
WrappedHandler(outcome) ==
    /\ Running
    /\ handler
    /\ nextId <= MaxMsgs
    /\ IF outcome = "panic"
       THEN CatchPanic
       ELSE /\ Dispatch("request", alAccessQueue)
            /\ fault' = fault
    /\ requests' = [requests EXCEPT ![outcome] = @ + 1]
    /\ UNCHANGED <<unitVars, queue, enq, alErrorQueue, alWrapOnce, handler, consumer,
                   wr, files, gone, today, alLastLoggingDate, failedDest, dest>>

(***************************************************************************)
(* Wrap.                                                                   *)
(***************************************************************************)
\* The locals of a goDoLogWrite just started by `go goDoLogWrite(f, q)`.
StartWriter(f) == [NoWriter EXCEPT !.pc = "init", !.aLogFile = f]

\* close(q), line 573; the buffer at that moment is remembered.
close(q) ==
    [queue EXCEPT ![q].closed = TRUE, ![q].atClose = queue[q].buf]

\* The comparison made on names that were not resolved: the two spellings
\* of one file differ.
SameFileUnresolved(a, e) == FALSE

\* Line 572: the comparison that decides whether both sinks share a file.
SameFile(a, e) == e = a

\* The function alWrapOnce.Do runs (lines 549-585) for the destinations acc
\* and err: wdOk says whether the working directory can be determined, okA
\* and okE whether os.OpenFile succeeds on the access and on the error file.
WrapInit(acc, err, wdOk, okA, okE) ==
    LET a == IF acc # "" THEN Abs(acc, wdOk) ELSE ""
        e == IF err # "" THEN Abs(err, wdOk) ELSE ""
        accFatal == a # "" /\ ~okA
        merge == ~accFatal /\ e # "" /\ SameFile(a, e)
        errFatal == ~accFatal /\ e # "" /\ ~SameFile(a, e) /\ ~okE
    IN  /\ alWrapOnce' = TRUE
        /\ fault' = IF accFatal \/ errFatal THEN "fatal" ELSE fault
        /\ handler' = ~(accFatal \/ errFatal)
        /\ consumer' =
              [c \in Chans |->
                 IF c = "access"
                 THEN IF a = "" THEN "ignore"
                      ELSE IF accFatal THEN "none" ELSE "writer"
                 ELSE IF accFatal \/ merge \/ errFatal THEN "none"
                      ELSE IF e = "" THEN "ignore" ELSE "writer"]
        /\ wr' =
              [c \in Chans |->
                 IF c = "access"
                 THEN IF a # "" /\ ~accFatal THEN StartWriter(a) ELSE NoWriter
                 ELSE IF e # "" /\ ~accFatal /\ ~merge /\ ~errFatal
                      THEN StartWriter(e) ELSE NoWriter]
        /\ queue' = IF merge THEN close(alErrorQueue) ELSE queue
        /\ alErrorQueue' = IF merge THEN alAccessQueue ELSE alErrorQueue
        /\ failedDest' =
              {c \in Chans :
                 IF c = "access"
                 THEN acc # "" /\ (a = "" \/ ~okA)
                 ELSE ~accFatal /\ err # ""
                      /\ (e = "" \/ (~SameFile(a, e) /\ ~okE))}
        /\ dest' = [c \in Chans |-> IF c = "access" THEN a ELSE e]

\* A Wrap without alWrapOnce: every call initialises.
WrapEveryCall(acc, err, wdOk, okA, okE) ==
    /\ Running
    /\ WrapInit(acc, err, wdOk, okA, okE)
    /\ UNCHANGED <<unitVars, enq, files, senders, nextId, gone, today,
                   alLastLoggingDate, requests>>

\* Wrap: the initialisation runs on the first call only; every call that
\* returns, returns a handler.
Wrap(acc, err, wdOk, okA, okE) ==
    /\ Running
    /\ IF alWrapOnce
       THEN /\ handler' = TRUE
            /\ UNCHANGED <<queue, alErrorQueue, alWrapOnce, fault, consumer,
                           wr, failedDest, dest>>
       ELSE WrapInit(acc, err, wdOk, okA, okE)
    /\ UNCHANGED <<unitVars, enq, files, senders, nextId, gone, today,
                   alLastLoggingDate, requests>>

\* What the first call of Wrap finds: whether the working directory can be
\* determined and whether each os.OpenFile succeeds.  Later calls do not
\* look.
WrapEnv ==
    IF alWrapOnce THEN {<<TRUE, TRUE, TRUE>>}
    ELSE BOOLEAN \X BOOLEAN \X BOOLEAN

\* The names a call of Wrap is given.  Later calls do not look at them.
WrapCalls ==
    IF alWrapOnce THEN {<<"", "">>} ELSE AccessNames \X ErrorNames

(***************************************************************************)
(* The sender goroutines goCustomLog and goWebLog.                         *)
(***************************************************************************)
\* A sender without the deferred recover(): the panic of the send on a
\* closed channel ends the process.
SendNoRecover(s) ==
    /\ fault' = "panic"
    /\ UNCHANGED <<queue, enq, gone>>

\* The deferred recover() of lines 349-351 and 485-487, for a send that
\* panics because the channel is closed: the goroutine ends, the message is
\* dropped.
SendRecover(s) ==
    /\ gone' = gone \cup {[m |-> s.m, by |-> "closed", ch |-> s.ch,
                           full |-> QueueFull(s.ch)]}
    /\ UNCHANGED <<queue, enq, fault>>

\* A send that gives the message up when the channel is full.
SendOrDrop(s) ==
    /\ Running
    /\ s \in senders
    /\ IF queue[s.ch].closed
       THEN SendRecover(s)
       ELSE IF QueueFull(s.ch)
       THEN /\ gone' = gone \cup {[m |-> s.m, by |-> "full", ch |-> s.ch,
                                   full |-> TRUE]}
            /\ UNCHANGED <<queue, enq, fault>>
       ELSE /\ queue' = [queue EXCEPT ![s.ch].buf = Append(@, s.m)]
            /\ enq' = [enq EXCEPT ![s.ch] = Append(@, s.m)]
            /\ UNCHANGED <<gone, fault>>
    /\ senders' = senders \ {s}
    /\ UNCHANGED <<unitVars, alErrorQueue, alWrapOnce, handler, consumer, wr, files,
                   nextId, today, alLastLoggingDate, requests, failedDest, dest>>

\* Sends that are made in the order of their go statements.
SendInOrder(s) ==
    /\ Running
    /\ s \in senders
    /\ \A o \in senders : o.ch = s.ch => s.m.id <= o.m.id
    /\ IF queue[s.ch].closed
       THEN SendRecover(s)
       ELSE /\ ~QueueFull(s.ch)
            /\ queue' = [queue EXCEPT ![s.ch].buf = Append(@, s.m)]
            /\ enq' = [enq EXCEPT ![s.ch] = Append(@, s.m)]
            /\ UNCHANGED <<gone, fault>>
    /\ senders' = senders \ {s}
    /\ UNCHANGED <<unitVars, alErrorQueue, alWrapOnce, handler, consumer, wr, files,
                   nextId, today, alLastLoggingDate, requests, failedDest, dest>>

\* The send `aLogChannel <- ...` of lines 364 and 494.  It blocks while the
\* channel is full and open.
Send(s) ==
    /\ Running
    /\ s \in senders
    /\ IF queue[s.ch].closed
       THEN SendRecover(s)
       ELSE /\ ~QueueFull(s.ch)
            /\ queue' = [queue EXCEPT ![s.ch].buf = Append(@, s.m)]
            /\ enq' = [enq EXCEPT ![s.ch] = Append(@, s.m)]
            /\ UNCHANGED <<gone, fault>>
    /\ senders' = senders \ {s}
    /\ UNCHANGED <<unitVars, alErrorQueue, alWrapOnce, handler, consumer, wr, files,
                   nextId, today, alLastLoggingDate, requests, failedDest, dest>>

(***************************************************************************)
(* The writer goroutine goDoLogWrite(aLogFile, aMsgSource) of channel c.   *)
(*                                                                         *)
(* closeTimer is "armed" (running, or expired for the current arming),     *)
(* "stale" (closeTimer.C holds the expiry of an earlier arming),           *)
(* "expired" (its expiry was just received) or "stopped".  failed says     *)
(* that an os.OpenFile for the message in txt has failed.                  *)
(***************************************************************************)
\* closeTimer.Reset(alFileCloseDelay), lines 425, 442 and 450.  Reset does
\* not drain closeTimer.C: where the runtime delivers timer values through
\* a buffered channel (Go before 1.23, or GODEBUG=asynctimerchan=1) an
\* expiry that happened while the writer was busy stays in the channel.
Reset(t) ==
    CASE t = "expired" -> {"armed"}
      [] t = "stale"   -> {"stale"}
      [] OTHER         -> {"armed", "stale"}

\* time.Time.Date (lines 178-179) of a time counted in days, in a calendar
\* of DaysPerMonth days a month and MonthsPerYear months a year.
DaysPerMonth == 2
MonthsPerYear == 2

Date(t) ==
    [year |-> t \div (DaysPerMonth * MonthsPerYear),
     month |-> ((t \div DaysPerMonth) % MonthsPerYear) + 1,
     day |-> (t % DaysPerMonth) + 1]

\* A comparison of the days of the month alone.
compareDaysOfMonth == Date(today).day # Date(alLastLoggingDate).day

\* compareDayStamps, lines 175-190: the value of changed.
compareDayStamps ==
    LET n == Date(today)
        o == Date(alLastLoggingDate)
    IN  (n.day # o.day) \/ (n.month # o.month) \/ (n.year # o.year)

writerFrame == <<unitVars, enq, alErrorQueue, alWrapOnce, handler, fault, consumer, senders,
                 nextId, gone, today, requests, failedDest, dest>>

IsWriter(c) == Running /\ consumer[c] = "writer"

\* Lines 404-405: the initial sleep, then the timer is made.
WriterStart(c) ==
    /\ IsWriter(c)
    /\ wr[c].pc = "init"
    /\ wr' = [wr EXCEPT ![c].pc = "select", ![c].closeTimer = "armed"]
    /\ UNCHANGED <<queue, files, alLastLoggingDate, writerFrame>>

\* A return without the deferred function: the file stays open.
WriterReturnLeak(w) == [w EXCEPT !.pc = "done"]

\* Lines 392-402: the deferred function run when goDoLogWrite returns.
WriterReturn(w) ==
    [w EXCEPT !.pc = "done", !.logFile = "nil", !.closeTimer = "stopped"]

\* A writer that writes without looking at its handle.
AfterReceiveNoOpen(w) == "write"

\* Line 417: with no open handle the writer opens its file before it
\* writes, with one it writes.
AfterReceive(w) == IF w.logFile = "nil" THEN "open" ELSE "write"

\* Lines 409-416: the select receives from the channel.  A closed and
\* empty channel makes the writer return; otherwise the message is taken
\* and, on a new day, a blank line is put before it.
SelectRecv(c) ==
    /\ IsWriter(c)
    /\ wr[c].pc = "select"
    /\ IF queue[c].buf = <<>>
       THEN /\ queue[c].closed
            /\ wr' = [wr EXCEPT ![c] = WriterReturn(@)]
            /\ UNCHANGED <<queue, alLastLoggingDate>>
       ELSE /\ queue' = [queue EXCEPT ![c].buf = Tail(@)]
            /\ wr' = [wr EXCEPT
                  ![c].txt = IF compareDayStamps
                             THEN <<Blank, Head(queue[c].buf)>>
                             ELSE <<Head(queue[c].buf)>>,
                  ![c].pc = AfterReceive(wr[c])]
            /\ alLastLoggingDate' = IF compareDayStamps THEN today
                                    ELSE alLastLoggingDate
    /\ UNCHANGED <<files, writerFrame>>

\* Lines 444-450: the select receives the timer's expiry: the file is
\* closed if it is open and the timer is set again.
SelectTimer(c) ==
    /\ IsWriter(c)
    /\ wr[c].pc = "select"
    /\ wr[c].closeTimer \in {"armed", "stale"}
    /\ \E t \in Reset(IF wr[c].closeTimer = "armed" THEN "expired" ELSE "armed") :
          wr' = [wr EXCEPT ![c].logFile = "nil", ![c].closeTimer = t]
    /\ UNCHANGED <<queue, files, alLastLoggingDate, writerFrame>>

\* A writer that gives the message up when the file does not open.
OpenGiveUp(w) == [w EXCEPT !.pc = "select", !.txt = <<>>, !.failed = TRUE]

\* Lines 419-426, an os.OpenFile that fails: sleep, set the timer, retry.
OpenRetry(w) == [w EXCEPT !.pc = "open", !.failed = TRUE]

OpenFail(c) ==
    /\ IsWriter(c)
    /\ wr[c].pc = "open"
    /\ \E t \in Reset(wr[c].closeTimer) :
          wr' = [wr EXCEPT ![c] = [OpenRetry(@) EXCEPT !.closeTimer = t]]
    /\ UNCHANGED <<queue, files, alLastLoggingDate, writerFrame>>

\* An open with O_TRUNC: the file is emptied.
OpenFileTruncate(f) == [files EXCEPT ![f] = <<>>]

\* os.OpenFile(f, alOpenFlags, 0640) that succeeds: O_CREATE makes a
\* missing file, which is an empty one, and O_APPEND|O_WRONLY keeps what
\* the file holds.
OpenFile(f) == [files EXCEPT ![f] = @]

\* Lines 420-423, an os.OpenFile that succeeds.
OpenOk(c) ==
    /\ IsWriter(c)
    /\ wr[c].pc = "open"
    /\ wr' = [wr EXCEPT ![c].logFile = "open", ![c].pc = "write"]
    /\ files' = OpenFile(wr[c].aLogFile)
    /\ UNCHANGED <<queue, alLastLoggingDate, writerFrame>>

\* A file opened without O_APPEND: a write after a re-open starts over.
FprintNoAppend(f, txt) == [files EXCEPT ![f] = txt]

\* fmt.Fprint(logFile, txt): the file is opened with O_APPEND.
Fprint(f, txt) == [files EXCEPT ![f] = @ \o txt]

\* A writer that goes back to the select after every write.
AfterWriteNoBatch(c, n, t) ==
    [wr EXCEPT ![c].pc = "select", ![c].cLen = 0, ![c].txt = <<>>,
               ![c].failed = FALSE, ![c].closeTimer = t]

\* After a write: with cLen messages known to wait, the batch loop goes on;
\* otherwise the timer is set again (line 442) and the writer selects.
AfterWrite(c, n, t) ==
    IF 0 < n
    THEN [wr EXCEPT ![c].pc = "drain", ![c].cLen = n, ![c].txt = <<>>,
                    ![c].failed = FALSE]
    ELSE [wr EXCEPT ![c].pc = "select", ![c].cLen = 0, ![c].txt = <<>>,
                    ![c].failed = FALSE, ![c].closeTimer = t]

\* Lines 428-429: the triggering message is written, then len(aMsgSource)
\* is read.
Write(c) ==
    /\ IsWriter(c)
    /\ wr[c].pc = "write"
    /\ files' = Fprint(wr[c].aLogFile, wr[c].txt)
    /\ \E t \in Reset(wr[c].closeTimer) :
          wr' = AfterWrite(c, Len(queue[c].buf), t)
    /\ UNCHANGED <<queue, alLastLoggingDate, writerFrame>>

\* Line 431: `for txt = range aMsgSource` receives the next message; the
\* loop ends when the channel is closed and empty.
DrainRecv(c) ==
    /\ IsWriter(c)
    /\ wr[c].pc = "drain"
    /\ IF queue[c].buf = <<>>
       THEN /\ queue[c].closed
            /\ \E t \in Reset(wr[c].closeTimer) : wr' = AfterWrite(c, 0, t)
            /\ UNCHANGED queue
       ELSE /\ queue' = [queue EXCEPT ![c].buf = Tail(@)]
            /\ wr' = [wr EXCEPT ![c].txt = <<Head(queue[c].buf)>>,
                                ![c].pc = "drainwrite"]
    /\ UNCHANGED <<files, alLastLoggingDate, writerFrame>>

\* Lines 432-439: the message is written and counted; when the count is
\* used up len(aMsgSource) is read again.
DrainWrite(c) ==
    /\ IsWriter(c)
    /\ wr[c].pc = "drainwrite"
    /\ files' = Fprint(wr[c].aLogFile, wr[c].txt)
    /\ \E t \in Reset(wr[c].closeTimer) :
          wr' = AfterWrite(c, IF 0 < wr[c].cLen - 1 THEN wr[c].cLen - 1
                              ELSE Len(queue[c].buf), t)
    /\ UNCHANGED <<queue, alLastLoggingDate, writerFrame>>

(***************************************************************************)
(* The discard consumer goIgnoreLog of channel c (lines 460-473).          *)
(***************************************************************************)
\* A discard consumer that never receives.
goIgnoreLogIdle(c) ==
    /\ Running
    /\ consumer[c] = "ignore"
    /\ UNCHANGED vars

goIgnoreLog(c) ==
    /\ Running
    /\ consumer[c] = "ignore"
    /\ queue[c].buf # <<>>
    /\ queue' = [queue EXCEPT ![c].buf = Tail(@)]
    /\ gone' = gone \cup {[m |-> Head(queue[c].buf), by |-> "ignored",
                           ch |-> c, full |-> QueueFull(c)]}
    /\ UNCHANGED <<unitVars, enq, alErrorQueue, alWrapOnce, handler, fault, consumer,
                   wr, files, senders, nextId, today, alLastLoggingDate,
                   requests, failedDest, dest>>

(***************************************************************************)
(* The clock: midnight passes.                                             *)
(***************************************************************************)
Midnight ==
    /\ Running
    /\ today < MaxDay
    /\ today' = today + 1
    /\ UNCHANGED <<unitVars, queue, enq, alErrorQueue, alWrapOnce, handler, fault,
                   consumer, wr, files, senders, nextId, gone,
                   alLastLoggingDate, requests, failedDest, dest>>

(***************************************************************************)
(* The program: an application that calls the exported functions in any    *)
(* order, and the goroutines they start.                                   *)
(***************************************************************************)
Next ==
    \/ Log
    \/ Err
    \/ \E n \in MsgLens : tLogLogWrite(n)
    \/ \E o \in Outcomes : WrappedHandler(o)
    \/ \E names \in WrapCalls, env \in WrapEnv :
          Wrap(names[1], names[2], env[1], env[2], env[3])
    \/ \E s \in senders : Send(s)
    \/ \E c \in Chans : WriterStart(c)
    \/ \E c \in Chans : SelectRecv(c)
    \/ \E c \in Chans : SelectTimer(c)
    \/ \E c \in Chans : OpenFail(c)
    \/ \E c \in Chans : OpenOk(c)
    \/ \E c \in Chans : Write(c)
    \/ \E c \in Chans : DrainRecv(c)
    \/ \E c \in Chans : DrainWrite(c)
    \/ \E c \in Chans : goIgnoreLog(c)
    \/ Midnight

Spec == Init /\ [][Next]_vars

\* The program under a scheduler that runs every sender and every discard
\* consumer that can take a step.
FairSpec ==
    /\ Spec
    /\ \A c \in Chans : WF_vars(\E s \in senders : s.ch = c /\ Send(s))
    /\ \A c \in Chans : WF_vars(goIgnoreLog(c))

(***************************************************************************)
(* A writer on its own: goDoLogWrite started directly on alErrorQueue, as  *)
(* Benchmark_goCustomLog does, with goCustomLog senders and with the       *)
(* channel closed at some moment by close(alErrorQueue).                   *)
(***************************************************************************)
WriterChan == "error"

WriterInit ==
    /\ queue = [c \in Chans |->
                  [buf |-> <<>>, closed |-> FALSE, atClose |-> <<>>]]
    /\ enq = [c \in Chans |-> <<>>]
    /\ alErrorQueue = WriterChan
    /\ alWrapOnce = FALSE
    /\ handler = FALSE
    /\ fault = "none"
    /\ consumer = [c \in Chans |-> IF c = WriterChan THEN "writer" ELSE "none"]
    /\ wr = [c \in Chans |-> IF c = WriterChan
                             THEN StartWriter("/var/log/error.log")
                             ELSE NoWriter]
    /\ files = [p \in AbsPaths |-> <<>>]
    /\ senders = {}
    /\ nextId = 1
    /\ gone = {}
    /\ today = 0
    /\ alLastLoggingDate = 0
    /\ requests = [o \in Outcomes |-> 0]
    /\ failedDest = {}
    /\ dest = [c \in Chans |-> ""]
    /\ lw = NewLogWriter
    /\ calls = <<>>
    /\ call = NoCall

\* close(alErrorQueue) on a channel that is still open.
CloseQueue ==
    /\ Running
    /\ ~queue[alErrorQueue].closed
    /\ queue' = close(alErrorQueue)
    /\ UNCHANGED <<unitVars, enq, alErrorQueue, alWrapOnce, handler, fault, consumer,
                   wr, files, senders, nextId, gone, today,
                   alLastLoggingDate, requests, failedDest, dest>>

WriterNext ==
    \/ Err
    \/ \E s \in senders : Send(s)
    \/ WriterStart(WriterChan)
    \/ SelectRecv(WriterChan)
    \/ SelectTimer(WriterChan)
    \/ OpenFail(WriterChan)
    \/ OpenOk(WriterChan)
    \/ Write(WriterChan)
    \/ DrainRecv(WriterChan)
    \/ DrainWrite(WriterChan)
    \/ Midnight
    \/ CloseQueue

\* The scheduler runs every goroutine that can take a step, and a select
\* whose channel case is ready takes it sooner or later.  Whether an
\* os.OpenFile succeeds is not the scheduler's to decide: a failed attempt
\* changes nothing but the time, so a writer whose destination never opens
\* stays in the open-retry loop.
WriterFairness ==
    /\ WF_vars(\E s \in senders : Send(s))
    /\ WF_vars(WriterStart(WriterChan))
    /\ WF_vars(SelectRecv(WriterChan))
    /\ WF_vars(Write(WriterChan))
    /\ WF_vars(DrainRecv(WriterChan))
    /\ WF_vars(DrainWrite(WriterChan))

WriterSpec == WriterInit /\ [][WriterNext]_vars /\ WriterFairness

(***************************************************************************)
(* Properties.                                                             *)
(***************************************************************************)
\* The lines of a file or of a text that are log entries.
IsEntry(l) == l # Blank
Entries(lines) == SelectSeq(lines, IsEntry)

\* The entries on the file of the writer of channel c.
Written(c) == Entries(files[wr[c].aLogFile])

\* The open-retry loop of the writer never lasts forever.
Openable == []<>(wr[WriterChan].pc # "open")

\* C1: for a queue with a running writer, the entries on the file, then the
\* entry the writer holds, then the buffered ones are exactly the messages
\* enqueued, in enqueue order; and when the destination can be opened,
\* everything enqueued is on the file again and again (every completed
\* send is written, once, in order).
C1_FifoState ==
    \A c \in Chans :
        consumer[c] = "writer" =>
            Written(c) \o Entries(wr[c].txt) \o queue[c].buf = enq[c]

Range(seq) == {seq[i] : i \in 1..Len(seq)}

\* Every message dispatched so far: its sender is pending, or it was
\* enqueued, or its send failed on a closed channel.
Dispatched ==
    {s.m : s \in senders}
        \cup UNION {Range(enq[c]) : c \in Chans}
        \cup {g.m : g \in {x \in gone : x.by = "closed"}}

\* The messages that are on some channel, in a writer's hands or on a file.
Kept ==
    UNION {Range(queue[c].buf) \cup Range(wr[c].txt) : c \in Chans}
        \cup UNION {Range(files[f]) : f \in AbsPaths}

\* C2: a send on a closed queue never faults: no panic leaves a sender, and
\* the step in which a sender ends on a closed queue drops the message and
\* changes neither a queue nor a file nor what the caller sees; a message
\* dropped that way is on no queue and on no file.
C2_FailedSendStep ==
    \A s \in senders :
        (s \notin senders' /\ queue[s.ch].closed) =>
            /\ queue' = queue
            /\ enq' = enq
            /\ files' = files
            /\ <<fault, handler, wr, consumer>>' = <<fault, handler, wr, consumer>>
            /\ \E g \in gone' \ gone : g.m = s.m /\ g.by = "closed"

C2_ClosedSendDiscarded ==
    /\ [](fault # "panic")
    /\ [](\A g \in gone : g.by = "closed" => g.m \notin Kept)
    /\ [][C2_FailedSendStep]_vars

\* A send has failed on a queue that was full when it was closed, and the
\* program runs on.
C2_Witness ==
    /\ fault = "none"
    /\ \E g \in gone : g.by = "closed" /\ g.full

\* C3: Log, Err and the wrapped handler complete in every state in which
\* the program runs, whatever the queues and their consumers do.
C3_CallsNeverBlock ==
    (Running /\ nextId <= MaxMsgs) =>
        /\ ENABLED Log
        /\ ENABLED Err
        /\ handler => \A o \in Outcomes : ENABLED WrappedHandler(o)

\* A call has completed while its queue was full and the consumer stalled;
\* its sender is still blocked.
C3_Witness ==
    \E s \in senders :
        s.onFull /\ QueueFull(s.ch) /\ Stalled(s.ch) /\ ~queue[s.ch].closed

\* C4: a panic of the downstream handler never leaves the wrapped handler;
\* each panicking request dispatches exactly one catchPanic entry, to the
\* error queue; and the wrapped handler keeps serving: every request that
\* returns dispatches its access entry.
C4_PanicRecovered ==
    /\ fault # "panic"
    /\ Cardinality({m \in Dispatched : m.kind = "catchPanic"})
          = requests["panic"]
    /\ Cardinality({m \in Dispatched : m.kind = "request"})
          = requests["return"]
    /\ \A s \in senders : s.m.kind = "catchPanic" => s.ch = alErrorQueue
    /\ \A c \in Chans : \A m \in Range(enq[c]) :
          m.kind = "catchPanic" => c = alErrorQueue
    /\ (Running /\ handler /\ nextId <= MaxMsgs) =>
          \A o \in Outcomes : ENABLED WrappedHandler(o)

\* A request panicked, and a later request was served and is on the access
\* file.
C4_Witness ==
    /\ requests["panic"] > 0
    /\ \E m \in Dispatched : \E l \in Range(files["/srv/access.log"]) :
          m.kind = "catchPanic" /\ l.kind = "request" /\ l.id > m.id

\* Both sinks were given the same file.
SharedFile ==
    alWrapOnce /\ Running /\ dest["access"] # ""
        /\ dest["error"] = dest["access"]

\* C5: when both destinations resolve to the same path there is one writer,
\* on the access queue; the original error queue is closed and has no
\* consumer, alErrorQueue is the access queue, and from then on every
\* message is dispatched to the access queue and nothing enters the error
\* queue; and never do two writers have the same destination.
C5_OneWriterPerFile ==
    /\ [](SharedFile =>
            /\ alErrorQueue = alAccessQueue
            /\ consumer = [c \in Chans |->
                             IF c = "access" THEN "writer" ELSE "none"]
            /\ queue["error"].closed)
    /\ [](\A c, d \in Chans :
            (c # d /\ consumer[c] = "writer" /\ consumer[d] = "writer")
                => wr[c].aLogFile # wr[d].aLogFile)
    /\ [][SharedFile =>
            /\ \A s \in senders' \ senders : s.ch = alAccessQueue
            /\ enq'["error"] = enq["error"]]_vars

\* With a shared file, an entry of Err or of the panic guard is on the
\* access queue's file.
C5_Witness ==
    /\ SharedFile
    /\ \E l \in Range(Written("access")) : l.kind \in {"ERR", "catchPanic"}

\* C6: a sink without destination has a discard consumer: none of its
\* messages is ever on a file, and while the process lives its queue is
\* again and again empty with no sender waiting on it.
C6_Discarded ==
    /\ [](\A c \in Chans : consumer[c] = "ignore" =>
            /\ dest[c] = ""
            /\ Range(enq[c]) \cap Kept \subseteq Range(queue[c].buf))
    /\ \A c \in Chans :
          []<>((Running /\ consumer[c] = "ignore") =>
                  queue[c].buf = <<>> /\ \A s \in senders : s.ch # c)

\* The discard consumer has removed a message from a full queue.
C6_Witness ==
    \E g \in gone : g.by = "ignored" /\ g.full /\ consumer[g.ch] = "ignore"

\* C7: when a destination that is not empty could not be opened by the
\* first Wrap, the process is terminated: no handler is returned and the
\* sink has no writer.
C7_FatalWhenUnopenable ==
    failedDest # {} =>
        /\ fault = "fatal"
        /\ ~handler
        /\ \A c \in failedDest : consumer[c] # "writer"

\* C8: the handle is closed on a timer expiry only when the expiry is that
\* of the timer as it was last set, so that no message was processed in the
\* period it measured: an expiry of an earlier setting never closes the
\* handle after a message; and a message received without a handle makes
\* the writer open the file.
C8_IdleCloseStep ==
    \A c \in Chans :
        (wr[c].pc = "select" /\ wr'[c].pc = "select"
            /\ wr[c].logFile = "open" /\ wr'[c].logFile = "nil")
        => wr[c].closeTimer # "stale"

C8_ReopenStep ==
    \A c \in Chans :
        (wr[c].pc = "select" /\ wr[c].logFile = "nil"
            /\ wr'[c].txt # wr[c].txt)
        => wr'[c].pc = "open"

C8_CloseOnlyWhenIdle ==
    /\ [][C8_IdleCloseStep]_vars
    /\ [][C8_ReopenStep]_vars

\* The step of the writer's open loop: the writer stays in the loop or
\* leaves it with a handle, keeps the message, and changes no file and
\* nothing a producer or a request handler sees.
C9_OpenStep ==
    wr[WriterChan].pc = "open" =>
        /\ wr'[WriterChan].pc \in {"open", "write"}
        /\ wr'[WriterChan].txt = wr[WriterChan].txt
        /\ wr'[WriterChan].pc = "write" => wr'[WriterChan].logFile = "open"
        /\ files' = files
        /\ fault' = fault

\* The writer's step after the open loop puts the message at the end of
\* the file.
C9_WriteStep ==
    (wr[WriterChan].pc = "write" /\ wr'[WriterChan] # wr[WriterChan]) =>
        files' = [files EXCEPT ![wr[WriterChan].aLogFile] =
                                   @ \o wr[WriterChan].txt]

\* C9: a failed open is retried without bound and the message that made
\* the writer open the file is kept: it is the next thing written once an
\* open succeeds, before any later message, and while the writer retries no
\* caller faults or blocks.
C9_RetryKeepsMessage ==
    /\ [][C9_OpenStep]_vars
    /\ [][C9_WriteStep]_vars
    /\ [](wr[WriterChan].pc \in {"open", "write"} =>
            /\ wr[WriterChan].txt # <<>>
            /\ fault = "none"
            /\ nextId <= MaxMsgs => ENABLED Err)
    /\ (wr[WriterChan].pc = "write") ~> (wr[WriterChan].pc \notin {"open", "write"})

\* After a failed open the file is open, the writer is about to write the
\* message it has kept, and a later message waits in the channel.
C9_Witness ==
    /\ wr[WriterChan].failed
    /\ wr[WriterChan].pc = "write"
    /\ wr[WriterChan].txt # <<>>
    /\ queue[WriterChan].buf # <<>>

\* The writer's terminal state: no handle, the timer stopped, and every
\* message that was in the channel when it was closed is on the file.
Terminated ==
    wr[WriterChan].pc = "done" =>
        /\ wr[WriterChan].logFile = "nil"
        /\ wr[WriterChan].closeTimer = "stopped"
        /\ queue[WriterChan].closed
        /\ queue[WriterChan].buf = <<>>
        /\ Range(queue[WriterChan].atClose) \subseteq Range(Written(WriterChan))

\* The statement without a condition on the open loop: once the channel is
\* closed the writer terminates.
C10_Terminates ==
    queue[WriterChan].closed ~> (wr[WriterChan].pc = "done")

\* C10: provided every open loop of the writer ends, a writer whose channel
\* is closed terminates; a terminated writer has written every message that
\* was in the channel at the close, has no handle and a stopped timer, and
\* nothing is written after it has terminated.
C10_DrainsAndTerminates ==
    /\ []Terminated
    /\ [][wr[WriterChan].pc = "done" =>
            files' = files /\ wr'[WriterChan] = wr[WriterChan]]_vars
    /\ Openable => C10_Terminates

\* The writer has terminated after a close that found messages in the
\* channel.
C10_Witness ==
    /\ wr[WriterChan].pc = "done"
    /\ queue[WriterChan].atClose # <<>>

\* The text taken for writing starts with the separator exactly when the
\* day has changed since the stored date, and then the date is stored.
SeparatorPut(c) ==
    IF compareDayStamps
    THEN wr'[c].txt[1] = Blank /\ alLastLoggingDate' = today
    ELSE wr'[c].txt[1] # Blank /\ alLastLoggingDate' = alLastLoggingDate

\* The select takes a message.
C11_TriggerStep ==
    \A c \in Chans :
        (wr[c].pc = "select" /\ wr'[c].pc \in {"open", "write"})
            => SeparatorPut(c)

\* The batch loop takes a message.
C11_DrainStep ==
    \A c \in Chans :
        (wr[c].pc = "drain" /\ wr'[c].pc = "drainwrite") => SeparatorPut(c)

\* C11: when the day has changed since the stored date, the first message
\* the writer takes for writing is preceded by the separator and the date
\* is stored, be the message the one that the select received or one that
\* the batch loop received.
C11_SeparatorPerDay ==
    /\ [][C11_TriggerStep]_vars
    /\ [][C11_DrainStep]_vars

(***************************************************************************)
(* Strings and the formatting of log entries.  A string is a sequence of  *)
(* characters; the fixed pieces of alApacheFormatPattern and the fields    *)
(* that the program fills with values of its own (the time, a number, the  *)
(* user's name) stand as one character each.                               *)
(***************************************************************************)
MaxStr == 2

\* The characters an argument is made of: a letter, and the white space
\* that goCustomLog treats.
Alphabet == {"a", " ", "\t", "\n"}

StringsOver(chars) == UNION {[1..k -> chars] : k \in 0..MaxStr}

Strings == StringsOver(Alphabet)

\* The longest message Log and Err are called with.
MaxMsgLen == 4

\* The messages: a run of three spaces between two other characters takes
\* a newline, two characters of white space and one more character.
Messages == UNION {[1..k -> Alphabet] : k \in 0..MaxMsgLen}

\* strings.Replace(str, old, new, -1): the occurrences of old that do not
\* overlap, from the left.
RECURSIVE Replace(_, _, _)
Replace(str, old, new) ==
    IF Len(str) < Len(old) THEN str
    ELSE IF SubSeq(str, 1, Len(old)) = old
         THEN new \o Replace(SubSeq(str, Len(old) + 1, Len(str)), old, new)
         ELSE <<Head(str)>> \o Replace(Tail(str), old, new)

\* The white space of strings.TrimSpace within the alphabet.
Space == {" ", "\t", "\n"}

RECURSIVE TrimLeft(_)
TrimLeft(str) ==
    IF str # <<>> /\ Head(str) \in Space THEN TrimLeft(Tail(str)) ELSE str

RECURSIVE TrimRight(_)
TrimRight(str) ==
    IF str # <<>> /\ str[Len(str)] \in Space
    THEN TrimRight(SubSeq(str, 1, Len(str) - 1))
    ELSE str

TrimSpace(str) == TrimLeft(TrimRight(str))

\* fmt.Sprintf(alApacheFormatPattern, ...): ten fields between the fixed
\* pieces of the pattern, and the newline the pattern ends with.  The
\* address the entry starts with and the status are kept as they are; the
\* size and the time are one character each.
Sprintf(remote, user, method, url, proto, status, size, referrer, agent) ==
    [remote |-> remote,
     status |-> status,
     size |-> size,
     text |-> <<" - ">> \o user \o <<" [", "time", "] \"">> \o method
                \o <<" ">> \o url \o <<" ">> \o proto
                \o <<"\" ", "%d", " ", "%d", " \"">>
                \o referrer \o <<"\" \"">> \o agent \o <<"\"", "\n">>]

(***************************************************************************)
(* Addresses.  The text of an address is a record: t says what it reads    *)
(* as ("v4" a dotted quad, "v6" eight groups, "name" a host name, "empty"  *)
(* nothing, "[v6]" and "[name]" a text still in brackets), b holds the     *)
(* octets or groups and zone says that a "%zone" follows the groups.  A    *)
(* net.IP is its sixteen bytes, and <<>> is the nil IP.                    *)
(***************************************************************************)
Octets == {0, 7}
Groups == {0, 65535}

V4Text(o) == [t |-> "v4", b |-> o, zone |-> FALSE]
V6Text(g, z) == [t |-> "v6", b |-> g, zone |-> z]
HostName == [t |-> "name", b |-> <<>>, zone |-> FALSE]
Empty == [t |-> "empty", b |-> <<>>, zone |-> FALSE]
Loopback == V4Text(<<127, 0, 0, 1>>)

\* net.ParseIP: a dotted quad gives the IPv4-mapped sixteen bytes; an
\* IPv6 text with a zone, and everything else, is not an IP.
\* A net.ParseIP that takes a text with a zone for its address.
ParseIPZone(x) ==
    CASE x.t = "v4" ->
            <<0, 0, 0, 0, 0, 0, 0, 0, 0, 0, 255, 255>> \o x.b
      [] x.t = "v6" ->
            [i \in 1..16 |-> IF i % 2 = 1 THEN x.b[(i + 1) \div 2] \div 256
                             ELSE x.b[i \div 2] % 256]
      [] OTHER -> <<>>

ParseIP(x) ==
    CASE x.t = "v4" ->
            <<0, 0, 0, 0, 0, 0, 0, 0, 0, 0, 255, 255>> \o x.b
      [] x.t = "v6" /\ ~x.zone ->
            [i \in 1..16 |-> IF i % 2 = 1 THEN x.b[(i + 1) \div 2] \div 256
                             ELSE x.b[i \div 2] % 256]
      [] OTHER -> <<>>

\* An IP that never has a four-byte form.
To4Never(ip) == <<>>

\* net.IP.To4: the four octets of an IPv4-mapped address, or nil.
To4(ip) ==
    IF (\A i \in 1..10 : ip[i] = 0) /\ ip[11] = 255 /\ ip[12] = 255
    THEN SubSeq(ip, 13, 16)
    ELSE <<>>

\* net.IP.String: the dotted quad when To4 gives one, else the groups.
String(ip) ==
    IF To4(ip) # <<>> THEN V4Text(To4(ip))
    ELSE V6Text([i \in 1..8 |-> ip[2 * i - 1] * 256 + ip[2 * i]], FALSE)

\* Lines 355-361 of goCustomLog: the message as it is logged.
CustomMessage(aMessage) ==
    IF aMessage = <<>> THEN <<"P", "I", "N", "G">>
    ELSE TrimSpace(Replace(Replace(Replace(aMessage, <<"\n">>, <<";", " ">>),
                                   <<"\t">>, <<" ">>),
                           <<" ", " ">>, <<" ">>))

\* An entry whose size is the length of the message as it was passed.
CustomLineRawSize(aSender, aMessage, aMethod) ==
    Sprintf(Loopback, <<"alCurrentUser">>, <<aMethod>>,
            CustomMessage(aMessage), <<"HTTP/intern">>, 500,
            Len(aMessage),
            IF aSender = <<>> THEN <<"os.Args[0]">> ELSE aSender,
            <<"mwat56/apachelogger">>)

\* Lines 352-375 of goCustomLog: the entry sent to the channel.
CustomLine(aSender, aMessage, aMethod) ==
    Sprintf(Loopback, <<"alCurrentUser">>, <<aMethod>>,
            CustomMessage(aMessage), <<"HTTP/intern">>, 500,
            Len(CustomMessage(aMessage)),
            IF aSender = <<>> THEN <<"os.Args[0]">> ELSE aSender,
            <<"mwat56/apachelogger">>)

\* A text left in its brackets.
Bracketed(x) == [x EXCEPT !.t = IF x.t = "v6" THEN "[v6]" ELSE "[name]"]

\* alBracketRE, `\[([0-9a-f:\.]+)\]`, matches a bracketed dotted quad or
\* bracketed groups, not a "%zone" and not a host name.
BracketMatch(x) == x.t = "v4" \/ (x.t = "v6" /\ ~x.zone)

\* Lines 273-284 of getRemote.  aRequest.RemoteAddr has one of three
\* forms: "hostport" is host:port or [groups]:port, from which
\* net.SplitHostPort takes the host; "bare" is a host alone and "bracket"
\* a host in brackets alone, for both of which net.SplitHostPort fails and
\* alBracketRE decides.
RemoteHost(addr) ==
    CASE addr.form = "hostport" -> addr.host
      [] addr.form = "bracket" ->
            IF BracketMatch(addr.host) THEN addr.host
            ELSE Bracketed(addr.host)
      [] OTHER -> addr.host

\* strings.Trim(header, ","): the header as its entries between commas,
\* without the empty entries at its ends.
RECURSIVE TrimCommasLeft(_)
TrimCommasLeft(h) ==
    IF h # <<>> /\ Head(h) = Empty THEN TrimCommasLeft(Tail(h)) ELSE h

RECURSIVE TrimCommasRight(_)
TrimCommasRight(h) ==
    IF h # <<>> /\ h[Len(h)] = Empty
    THEN TrimCommasRight(SubSeq(h, 1, Len(h) - 1))
    ELSE h

TrimCommas(h) == TrimCommasLeft(TrimCommasRight(h))

\* A header of which the last entry is taken.
ForwardedLast(rAddress, header) ==
    LET xff == TrimCommas(header)
    IN  IF xff # <<>> /\ ParseIP(xff[Len(xff)]) # <<>>
        THEN String(ParseIP(xff[Len(xff)]))
        ELSE rAddress

\* Lines 286-294 of getRemote: the first entry of X-Forwarded-For, when
\* it is an IP, takes the place of the connection's address.
Forwarded(rAddress, header) ==
    LET xff == TrimCommas(header)
    IN  IF xff # <<>> /\ ParseIP(xff[1]) # <<>>
        THEN String(ParseIP(xff[1]))
        ELSE rAddress

\* An anonymisation that zeroes nothing.
AnonymiseNothing(ip) == String(ip)

\* Lines 310-318 of getRemote: the last octet of an IPv4 address, the last
\* eight bytes of any other address, are set to zero.
Anonymise(ip) ==
    IF To4(ip) # <<>>
    THEN V4Text([To4(ip) EXCEPT ![4] = 0])
    ELSE String([i \in 1..16 |-> IF i > 8 THEN 0 ELSE ip[i]])

\* A getRemote that anonymises the address of a failed request whatever
\* AnonymiseErrors says.
getRemoteAllStatuses(aRequest, aStatus, AnonymiseURLs, AnonymiseErrors) ==
    LET rAddress == Forwarded(RemoteHost(aRequest.addr), aRequest.xff)
    IN  IF ~AnonymiseURLs THEN rAddress
        ELSE IF ParseIP(rAddress) = <<>> THEN rAddress
        ELSE Anonymise(ParseIP(rAddress))

\* getRemote (lines 270-321), with the flags it reads.
getRemote(aRequest, aStatus, AnonymiseURLs, AnonymiseErrors) ==
    LET rAddress == Forwarded(RemoteHost(aRequest.addr), aRequest.xff)
    IN  IF ~AnonymiseURLs THEN rAddress
        ELSE IF ~AnonymiseErrors /\ 400 <= aStatus THEN rAddress
        ELSE IF ParseIP(rAddress) = <<>> THEN rAddress
        ELSE Anonymise(ParseIP(rAddress))

\* A path that is always followed by "?" and the query.
getPathAlwaysQuery(aURL) ==
    aURL.path \o <<"?">> \o aURL.query
        \o (IF aURL.fragment # <<>> THEN <<"#">> \o aURL.fragment ELSE <<>>)

\* getPath (lines 199-209).
getPath(aURL) ==
    aURL.path
        \o (IF aURL.query # <<>> THEN <<"?">> \o aURL.query ELSE <<>>)
        \o (IF aURL.fragment # <<>> THEN <<"#">> \o aURL.fragment ELSE <<>>)

\* getProto (lines 222-228).
getProto(aRequest) ==
    IF aRequest.proto = <<>> THEN <<"HTTP/1.0">> ELSE aRequest.proto

\* A referrer that prefers the header Referrer.
getReferrerMisspelledFirst(aHeader) ==
    IF aHeader.referrer # <<>> THEN aHeader.referrer
    ELSE IF aHeader.referer # <<>> THEN aHeader.referer
    ELSE <<"-">>

\* getReferrer (lines 239-249): the header Referer, else Referrer, else "-".
getReferrer(aHeader) ==
    IF aHeader.referer # <<>> THEN aHeader.referer
    ELSE IF aHeader.referrer # <<>> THEN aHeader.referrer
    ELSE <<"-">>

\* getUsername (lines 330-338).
getUsername(aURL) == IF aURL.user # <<>> THEN aURL.user ELSE <<"-">>

\* A line that carries the address as the connection gave it.
WebLineRawRemote(aLogger, aRequest, AnonymiseURLs, AnonymiseErrors) ==
    Sprintf(Forwarded(RemoteHost(aRequest.addr), aRequest.xff),
            getUsername(aRequest), <<aRequest.method>>, getPath(aRequest),
            getProto(aRequest), aLogger.status, aLogger.size,
            getReferrer(aRequest),
            IF aRequest.agent = <<>> THEN <<"-">> ELSE aRequest.agent)

\* Lines 488-505 of goWebLog: the entry sent to the channel, for the
\* status that the tLogWriter holds and the flags that getRemote reads.
WebLine(aLogger, aRequest, AnonymiseURLs, AnonymiseErrors) ==
    Sprintf(getRemote(aRequest, aLogger.status, AnonymiseURLs,
                      AnonymiseErrors),
            getUsername(aRequest), <<aRequest.method>>, getPath(aRequest),
            getProto(aRequest), aLogger.status, aLogger.size,
            getReferrer(aRequest),
            IF aRequest.agent = <<>> THEN <<"-">> ELSE aRequest.agent)

(***************************************************************************)
(* The arguments the functions are called with.                            *)
(***************************************************************************)
\* The texts a remote host is given as: every dotted quad over Octets,
\* every eight groups over Groups (the IPv4-mapped ones among them), a
\* link-local address with its zone, and a host name.
Hosts ==
    {V4Text(o) : o \in [1..4 -> Octets]}
        \cup {V6Text(g, FALSE) : g \in [1..8 -> Groups]}
        \cup {V6Text(<<65152, 0, 0, 0, 0, 0, 0, 1>>, TRUE), HostName}

Forms == {"hostport", "bare", "bracket"}

RemoteAddrs == {[form |-> f, host |-> h] : f \in Forms, h \in Hosts}

\* The entries of an X-Forwarded-For header, and the headers.
XffEntries ==
    {Empty, HostName, V4Text(<<7, 7, 7, 7>>),
     V6Text(<<65535, 0, 65535, 0, 65535, 0, 65535, 0>>, FALSE)}

MaxXff == 2

Headers == UNION {[1..k -> XffEntries] : k \in 0..MaxXff}

Statuses == {200, 399, 400}

\* The values of aLogger.size.
Sizes == {0, 5}

\* A request whose texts are all empty but the path "/".
PlainRequest ==
    [addr |-> [form |-> "hostport", host |-> V4Text(<<7, 7, 7, 7>>)],
     xff |-> <<>>, user |-> <<>>, method |-> "GET", path |-> <<"/">>,
     query |-> <<>>, fragment |-> <<>>, proto |-> <<>>, referer |-> <<>>,
     referrer |-> <<>>, agent |-> <<>>]

\* The texts of a request: the path is decoded, so that any character may
\* be in it; the other texts hold what the request held.
Paths == {<<"/">> \o p : p \in StringsOver({"a", "\n"})}
Texts == {<<>>, <<"a">>}

\* The requests goWebLog is called with: every address, and every text.
WebRequests ==
    {[PlainRequest EXCEPT !.addr = a, !.xff = h] :
        a \in RemoteAddrs, h \in {<<>>, <<V4Text(<<7, 7, 7, 7>>)>>}}
    \cup
    {[PlainRequest EXCEPT !.path = p, !.query = q, !.fragment = f,
                          !.user = u, !.proto = pr, !.referer = r1,
                          !.referrer = r2, !.agent = ag] :
        p \in Paths, q \in Texts, f \in Texts, u \in Texts, pr \in Texts,
        r1 \in Texts, r2 \in Texts, ag \in Texts}

(***************************************************************************)
(* The formatting functions called on their own.                           *)
(***************************************************************************)
unitFrame == <<queue, enq, alErrorQueue, alWrapOnce, handler, fault, consumer,
               wr, files, senders, nextId, gone, today, alLastLoggingDate,
               requests, failedDest, dest>>

\* Each behaviour makes one call.
goCustomLogCall ==
    /\ call = NoCall
    /\ \E aSender \in Strings, aMessage \in Messages,
          aMethod \in {"LOG", "ERR"} :
          call' = [fn |-> "goCustomLog",
                   arg |-> [aSender |-> aSender, aMessage |-> aMessage,
                            aMethod |-> aMethod],
                   out |-> CustomLine(aSender, aMessage, aMethod)]
    /\ UNCHANGED <<unitFrame, lw, calls>>

goWebLogCall ==
    /\ call = NoCall
    /\ \E aRequest \in WebRequests, aStatus \in Statuses, aSize \in Sizes,
          u, e \in BOOLEAN :
          call' = [fn |-> "goWebLog",
                   arg |-> [aRequest |-> aRequest, aStatus |-> aStatus,
                            aSize |-> aSize,
                            AnonymiseURLs |-> u, AnonymiseErrors |-> e],
                   out |-> WebLine([status |-> aStatus, size |-> aSize],
                                   aRequest, u, e)]
    /\ UNCHANGED <<unitFrame, lw, calls>>

getRemoteCall ==
    /\ call = NoCall
    /\ \E a \in RemoteAddrs, h \in Headers, aStatus \in Statuses,
          u, e \in BOOLEAN :
          call' = [fn |-> "getRemote",
                   arg |-> [aRequest |-> [PlainRequest EXCEPT !.addr = a,
                                                              !.xff = h],
                            aStatus |-> aStatus,
                            AnonymiseURLs |-> u, AnonymiseErrors |-> e],
                   out |-> getRemote([addr |-> a, xff |-> h], aStatus, u, e)]
    /\ UNCHANGED <<unitFrame, lw, calls>>

\* The URLs getPath is called with: the path may be empty.
URLs ==
    {[path |-> p, query |-> q, fragment |-> f] :
        p \in Paths \cup {<<>>}, q \in Texts, f \in Texts}

getPathCall ==
    /\ call = NoCall
    /\ \E aURL \in URLs :
          call' = [fn |-> "getPath", arg |-> aURL, out |-> getPath(aURL)]
    /\ UNCHANGED <<unitFrame, lw, calls>>

\* The values of a header of the request: a letter, a space, or both.
HeaderValues == StringsOver({"a", " "})

\* The headers getReferrer is called with: Referer, Referrer, and one of
\* another name, Referrrer, which http.Header.Get is never asked for.
RefererHeaders ==
    {[referer |-> r1, referrer |-> r2, referrrer |-> r3] :
        r1 \in HeaderValues, r2 \in HeaderValues, r3 \in HeaderValues}

getReferrerCall ==
    /\ call = NoCall
    /\ \E aHeader \in RefererHeaders :
          call' = [fn |-> "getReferrer", arg |-> aHeader,
                   out |-> getReferrer(aHeader)]
    /\ UNCHANGED <<unitFrame, lw, calls>>

UnitNext ==
    \/ goCustomLogCall
    \/ goWebLogCall
    \/ getRemoteCall
    \/ getPathCall
    \/ getReferrerCall

UnitSpec == Init /\ [][UnitNext]_vars

\* The number of newline characters of a text.
Newlines(text) == Cardinality({i \in 1..Len(text) : text[i] = "\n"})

\* C12: every entry that goWebLog or goCustomLog sends is one line: it has
\* one newline character, which is its last character.
C12_OneLine ==
    call.fn \in {"goCustomLog", "goWebLog"} =>
        /\ Newlines(call.out.text) = 1
        /\ call.out.text[Len(call.out.text)] = "\n"

\* The entries of goCustomLog whose sender has no newline are one line,
\* whatever the message.
MessageCleaned ==
    (call.fn = "goCustomLog" /\ Newlines(call.arg.aSender) = 0) =>
        Newlines(call.out.text) = 1

(***************************************************************************)
(* A tLogWriter and the calls a handler makes on it.                       *)
(***************************************************************************)
MaxCalls == 3

\* len(aData) of a Write, and the codes given to WriteHeader.
DataLens == {0, 1, 2}
Codes == {0, 200, 404}

\* A size that keeps the last chunk only.
LastChunk(size, n) == n

\* Line 112: lw.size += len(aData).
AddSize(size, n) == size + n

\* A status that every Write sets.
AlwaysOk(status) == 200

\* Lines 108-110: a Write sets the status 200 when none is set.
DefaultStatus(status) == IF status = 0 THEN 200 ELSE status

\* A Write that reports all of its data written without error.
WriteReturnAll(n, res, err) == <<n, "nil">>

\* Line 114: Write returns what the wrapped writer returns.
WriteReturn(n, res, err) == <<res, err>>

\* tLogWriter.Write (lines 107-115) with n bytes of data, for a wrapped
\* writer that writes res of them and returns err.
tLogWriterWrite(n, res, err) ==
    /\ Len(calls) < MaxCalls
    /\ lw' = [status |-> DefaultStatus(lw.status),
              size |-> AddSize(lw.size, n)]
    /\ calls' = Append(calls, [op |-> "Write", n |-> n, code |-> 0,
                               wrapped |-> <<res, err>>,
                               ret |-> WriteReturn(n, res, err)])
    /\ UNCHANGED <<unitFrame, call>>

\* tLogWriter.WriteHeader (lines 124-127).
tLogWriterWriteHeader(aStatus) ==
    /\ Len(calls) < MaxCalls
    /\ lw' = [lw EXCEPT !.status = aStatus]
    /\ calls' = Append(calls, [op |-> "WriteHeader", n |-> 0,
                               code |-> aStatus,
                               wrapped |-> <<>>, ret |-> <<>>])
    /\ UNCHANGED <<unitFrame, call>>

LogWriterNext ==
    \/ \E n \in DataLens, res \in 0..2, err \in {"nil", "err"} :
          res <= n /\ tLogWriterWrite(n, res, err)
    \/ \E aStatus \in Codes : tLogWriterWriteHeader(aStatus)

LogWriterSpec == Init /\ [][LogWriterNext]_vars

\* The sum of len(aData) over the Write calls made.
RECURSIVE SumWritten(_)
SumWritten(cs) ==
    IF cs = <<>> THEN 0 ELSE Head(cs).n + SumWritten(Tail(cs))

\* C13: the size of a tLogWriter is the sum of the lengths of the data of
\* all Write calls, whatever the wrapped writer returned, it never
\* decreases, and every Write returned what the wrapped writer returned.
C13_SizeIsSum ==
    /\ [](lw.size = SumWritten(calls))
    /\ [](\A i \in 1..Len(calls) :
            calls[i].op = "Write" => calls[i].ret = calls[i].wrapped)
    /\ [][lw'.size >= lw.size]_vars

\* Two Writes of different lengths were made, the wrapped writer wrote
\* only a part and returned an error.
C13_Witness ==
    /\ Len(calls) >= 2
    /\ calls[1].op = "Write" /\ calls[2].op = "Write"
    /\ calls[1].n = 2 /\ calls[2].n = 1
    /\ calls[1].wrapped = <<1, "err">>
    /\ lw.size = 3

\* The index of the last WriteHeader among the calls, or 0.
LastHeader(cs) ==
    IF \E i \in 1..Len(cs) : cs[i].op = "WriteHeader"
    THEN CHOOSE i \in 1..Len(cs) :
            /\ cs[i].op = "WriteHeader"
            /\ \A j \in (i + 1)..Len(cs) : cs[j].op = "Write"
    ELSE 0

\* The statement for every argument of WriteHeader: the status is the
\* argument of the last WriteHeader when there was one, else 200 when
\* there was a Write.
C14_LastHeaderWins ==
    /\ LastHeader(calls) > 0 => lw.status = calls[LastHeader(calls)].code
    /\ (LastHeader(calls) = 0 /\ calls # <<>>) => lw.status = 200

\* A step that is a Write leaves a status that is set as it is.
C14_WriteStep ==
    (Len(calls') > Len(calls) /\ calls'[Len(calls')].op = "Write"
        /\ lw.status # 0)
    => lw'.status = lw.status

\* C14: the status is the argument of the last WriteHeader when there was
\* one, unless that argument is 0 and a Write followed it, in which case
\* the status is 200; without any WriteHeader it is 200 once there was a
\* Write; and a Write never changes a status that is not 0.
C14_StatusRecorded ==
    /\ [](LET h == LastHeader(calls)
          IN  /\ (h > 0 /\ (calls[h].code # 0 \/ h = Len(calls)))
                    => lw.status = calls[h].code
              /\ (h > 0 /\ calls[h].code = 0 /\ h < Len(calls))
                    => lw.status = 200
              /\ (h = 0 /\ calls # <<>>) => lw.status = 200
              /\ calls = <<>> => lw.status = 0)
    /\ [][C14_WriteStep]_vars

\* WriteHeader(404) followed a Write and a Write followed it; the status
\* is 404.
C14_Witness ==
    /\ Len(calls) = 3
    /\ calls[1].op = "Write"
    /\ calls[2].op = "WriteHeader" /\ calls[2].code = 404
    /\ calls[3].op = "Write"
    /\ lw.status = 404

(***************************************************************************)
(* Properties of getRemote.                                                *)
(***************************************************************************)
\* A text that is an IP address: a dotted quad, or groups without a zone.
IsIPText(x) == x.t = "v4" \/ (x.t = "v6" /\ ~x.zone)

\* The first entry of a header whose empty entries at the ends are gone.
FirstEntry(h) ==
    IF \E i \in 1..Len(h) : h[i] # Empty
    THEN h[CHOOSE i \in 1..Len(h) :
              h[i] # Empty /\ \A j \in 1..(i - 1) : h[j] = Empty]
    ELSE Empty

\* Groups that spell an IPv4-mapped address, ::ffff:a.b.c.d.
IsMapped(g) == (\A i \in 1..5 : g[i] = 0) /\ g[6] = 65535

\* An address as its bytes print: an IPv4-mapped one as a dotted quad.
Canonical(x) ==
    IF x.t = "v6" /\ ~x.zone /\ IsMapped(x.b)
    THEN V4Text(<<x.b[7] \div 256, x.b[7] % 256, x.b[8] \div 256, x.b[8] % 256>>)
    ELSE x

\* The address of the client of a request: the first entry of
\* X-Forwarded-For when it is an IP, else the host of the connection.
ClientAddress(aRequest) ==
    IF IsIPText(FirstEntry(aRequest.xff))
    THEN Canonical(FirstEntry(aRequest.xff))
    ELSE RemoteHost(aRequest.addr)

\* An address with its host part zero: the last octet of a dotted quad,
\* the last four groups of eight.
ZeroSuffix(x) ==
    IF x.t = "v4" THEN V4Text([x.b EXCEPT ![4] = 0])
    ELSE V6Text([i \in 1..8 |-> IF i > 4 THEN 0 ELSE x.b[i]], FALSE)

\* The call is one of getRemote that anonymises: AnonymiseURLs is set and
\* the status is below 400 or AnonymiseErrors is set.
Anonymising ==
    /\ call.fn \in {"getRemote", "goWebLog"}
    /\ call.arg.AnonymiseURLs
    /\ (call.arg.aStatus < 400 \/ call.arg.AnonymiseErrors)

\* getRemote for an address alone, with the flags and status of the call.
Again(x) ==
    getRemote([addr |-> [form |-> "bare", host |-> x], xff |-> <<>>],
              call.arg.aStatus, call.arg.AnonymiseURLs,
              call.arg.AnonymiseErrors)

\* C15: for a client address that is a dotted quad, with AnonymiseURLs set
\* and a status below 400, getRemote gives the address with the last octet
\* 0 and the other three as they were, and gives the same for its result.
C15_IPv4LastOctet ==
    (/\ call.fn = "getRemote"
     /\ call.arg.AnonymiseURLs
     /\ call.arg.aStatus < 400
     /\ ClientAddress(call.arg.aRequest).t = "v4")
    => LET A == ClientAddress(call.arg.aRequest)
       IN  /\ call.out = V4Text(<<A.b[1], A.b[2], A.b[3], 0>>)
           /\ Again(call.out) = call.out

\* A dotted quad whose octets are all 7 came with a port; the result has
\* the last octet 0.
C15_Witness ==
    /\ call.fn = "getRemote"
    /\ call.arg.AnonymiseURLs /\ call.arg.aStatus < 400
    /\ call.arg.aRequest.xff = <<>>
    /\ call.arg.aRequest.addr =
          [form |-> "hostport", host |-> V4Text(<<7, 7, 7, 7>>)]
    /\ call.out = V4Text(<<7, 7, 7, 0>>)

\* The address of the client as it was received: the first entry of
\* X-Forwarded-For when it is an IP, else the host of the connection.
ReceivedAddress(aRequest) ==
    IF IsIPText(FirstEntry(aRequest.xff))
    THEN FirstEntry(aRequest.xff)
    ELSE RemoteHost(aRequest.addr)

\* The call is one of getRemote for a client with a valid IPv6 address,
\* with AnonymiseURLs set and a status below 400.
IPv6Call ==
    /\ call.fn = "getRemote"
    /\ call.arg.AnonymiseURLs
    /\ call.arg.aStatus < 400
    /\ ReceivedAddress(call.arg.aRequest).t = "v6"
    /\ IsIPText(ReceivedAddress(call.arg.aRequest))

\* C16, as stated: for every valid IPv6 client address, with AnonymiseURLs
\* set and a status below 400, getRemote gives the address with the last
\* four groups 0 and the first four as they were.
C16_IPv6LastGroups ==
    IPv6Call
    => LET A == ReceivedAddress(call.arg.aRequest)
       IN  call.out = V6Text(<<A.b[1], A.b[2], A.b[3], A.b[4], 0, 0, 0, 0>>,
                             FALSE)

\* C16: for every valid IPv6 client address that is not IPv4-mapped, with
\* AnonymiseURLs set and a status below 400, getRemote gives the address
\* with the last four groups 0 and the first four as they were; for an
\* IPv4-mapped address ::ffff:a.b.c.d it gives the dotted quad a.b.c.0.
C16_IPv6UnlessMapped ==
    IPv6Call
    => LET A == ReceivedAddress(call.arg.aRequest)
       IN  IF IsMapped(A.b)
           THEN call.out = V4Text(<<A.b[7] \div 256, A.b[7] % 256,
                                    A.b[8] \div 256, 0>>)
           ELSE call.out = V6Text(<<A.b[1], A.b[2], A.b[3], A.b[4],
                                    0, 0, 0, 0>>, FALSE)

\* An address whose groups are all ffff came in brackets with a port; the
\* result keeps the first four groups and has the last four 0.
C16_Witness ==
    /\ IPv6Call
    /\ call.arg.aRequest.xff = <<>>
    /\ call.arg.aRequest.addr.form = "hostport"
    /\ \A i \in 1..8 : call.arg.aRequest.addr.host.b[i] = 65535
    /\ call.out = V6Text(<<65535, 65535, 65535, 65535, 0, 0, 0, 0>>, FALSE)

\* C17: with a status of 400 or more and AnonymiseErrors off getRemote
\* gives the address as it is, whatever AnonymiseURLs; for a valid IP it
\* gives the anonymised address when AnonymiseURLs is on and the status is
\* below 400 or AnonymiseErrors is on, and the address as it is otherwise.
C17_FlagsDecide ==
    call.fn = "getRemote"
    => LET A == ClientAddress(call.arg.aRequest)
       IN  /\ (call.arg.aStatus >= 400 /\ ~call.arg.AnonymiseErrors)
                 => call.out = A
           /\ IsIPText(ReceivedAddress(call.arg.aRequest))
                 => call.out = IF Anonymising THEN ZeroSuffix(Canonical(A))
                                ELSE A

\* A failed request with both flags on has its address anonymised.
C17_Witness ==
    /\ call.fn = "getRemote"
    /\ call.arg.aStatus = 400
    /\ call.arg.AnonymiseURLs /\ call.arg.AnonymiseErrors
    /\ call.arg.aRequest.xff = <<>>
    /\ call.arg.aRequest.addr =
          [form |-> "hostport", host |-> V4Text(<<7, 7, 7, 7>>)]
    /\ call.out = V4Text(<<7, 7, 7, 0>>)

\* The address that anonymisation is applied to, or that is logged as it
\* is, when the flags and the status of the call say so.
Logged(x) == IF Anonymising THEN ZeroSuffix(x) ELSE x

\* C18: when the first entry of X-Forwarded-For, the commas at the ends of
\* the header aside, is an IP, getRemote gives that entry, anonymised as
\* the flags say, whatever the connection's address and the later entries
\* are; when it is not an IP, getRemote gives what it gives without the
\* header.
C18_FirstForwarded ==
    (call.fn = "getRemote" /\ FirstEntry(call.arg.aRequest.xff) # Empty)
    => LET first == FirstEntry(call.arg.aRequest.xff)
       IN  IF IsIPText(first)
           THEN call.out = Logged(Canonical(first))
           ELSE call.out =
                   getRemote([call.arg.aRequest EXCEPT !.xff = <<>>],
                             call.arg.aStatus, call.arg.AnonymiseURLs,
                             call.arg.AnonymiseErrors)

\* The header names 7.7.7.7 and then another address, the connection
\* comes from yet another; the result is the first entry.
C18_Witness ==
    /\ call.fn = "getRemote"
    /\ ~call.arg.AnonymiseURLs
    /\ Len(call.arg.aRequest.xff) = 2
    /\ call.arg.aRequest.xff[1] = V4Text(<<7, 7, 7, 7>>)
    /\ call.arg.aRequest.xff[2] \notin {Empty, V4Text(<<7, 7, 7, 7>>)}
    /\ IsIPText(call.arg.aRequest.xff[2])
    /\ call.arg.aRequest.addr.host = V4Text(<<0, 0, 0, 0>>)
    /\ call.out = V4Text(<<7, 7, 7, 7>>)

\* The host of a connection's address as it stands when it is no IP.
Leftover(addr) ==
    IF addr.form = "bracket" THEN Bracketed(addr.host) ELSE addr.host

\* C19: an address that is no valid IP (a host name, a text with a zone,
\* what is left when splitting fails and no bracketed literal is found)
\* is what getRemote gives, as it stands, under every setting of the
\* flags.
C19_NotAnIPUnchanged ==
    (/\ call.fn = "getRemote"
     /\ ~IsIPText(FirstEntry(call.arg.aRequest.xff))
     /\ ~IsIPText(call.arg.aRequest.addr.host))
    => call.out = Leftover(call.arg.aRequest.addr)

\* A host name in brackets, and a zoned address, with anonymisation on.
C19_Witness ==
    /\ call.fn = "getRemote"
    /\ Anonymising
    /\ call.arg.aRequest.addr.host.t = "v6"
    /\ call.arg.aRequest.addr.host.zone
    /\ call.arg.aRequest.addr.form = "hostport"
    /\ call.out = call.arg.aRequest.addr.host

(***************************************************************************)
(* What a log line tells of the client's address.                          *)
(***************************************************************************)
\* The request with another address for its client, put where the
\* client's address was received.
WithClient(aRequest, x) ==
    IF IsIPText(FirstEntry(aRequest.xff))
    THEN LET i == CHOOSE k \in 1..Len(aRequest.xff) :
                     /\ aRequest.xff[k] # Empty
                     /\ \A j \in 1..(k - 1) : aRequest.xff[j] = Empty
         IN  [aRequest EXCEPT !.xff[i] = x]
    ELSE [aRequest EXCEPT !.addr.host = x]

\* The addresses that differ from x in the host-identifying suffix at
\* most: the last octet of a dotted quad, the last four groups of eight.
SuffixVariants(x) ==
    IF x.t = "v4" THEN {V4Text([x.b EXCEPT ![4] = o]) : o \in Octets}
    ELSE {V6Text(<<x.b[1], x.b[2], x.b[3], x.b[4],
                   g[1], g[2], g[3], g[4]>>, FALSE) : g \in [1..4 -> Groups]}

\* The addresses of the family of x that differ from x in the suffix that
\* anonymisation zeroes: the last octet of a dotted quad or of an
\* IPv4-mapped address, the last four groups of any other address.
FamilyVariants(x) ==
    CASE x.t = "v4" -> SuffixVariants(x)
      [] IsMapped(x.b) ->
            {V6Text([x.b EXCEPT ![8] = (x.b[8] \div 256) * 256 + o], FALSE) :
                o \in Octets}
      [] OTHER -> {y \in SuffixVariants(x) : ~IsMapped(y.b)}

\* The call is one of goWebLog that anonymises a valid client IP.
AnonymisedLine ==
    /\ call.fn = "goWebLog"
    /\ Anonymising
    /\ IsIPText(ReceivedAddress(call.arg.aRequest))

\* The line goWebLog makes of the call's request with x for its client.
LineFor(x) ==
    WebLine([status |-> call.arg.aStatus, size |-> call.arg.aSize],
            WithClient(call.arg.aRequest, x),
            call.arg.AnonymiseURLs, call.arg.AnonymiseErrors)

\* C20, as stated: when anonymisation applies, a request that differs from
\* the logged one only in the last octet of an IPv4 client address, or in
\* the last 64 bits of an IPv6 one, gives the same log line.
C20_SuffixNeverLogged ==
    AnonymisedLine
    => \A x \in SuffixVariants(ReceivedAddress(call.arg.aRequest)) :
          LineFor(x) = call.out

\* C20: when anonymisation applies, a request that differs from the logged
\* one only in the last octet of an IPv4 or IPv4-mapped client address, or
\* in the last 64 bits of another IPv6 address that leave it other than
\* IPv4-mapped, gives the same log line.
C20_FamilySuffixNeverLogged ==
    AnonymisedLine
    => \A x \in FamilyVariants(ReceivedAddress(call.arg.aRequest)) :
          LineFor(x) = call.out

\* The line of a client at ffff:...:ffff is the line of the client whose
\* address ends in four groups of 0, and shows those.
C20_Witness ==
    /\ AnonymisedLine
    /\ call.arg.aRequest.xff = <<>>
    /\ \A i \in 1..8 : call.arg.aRequest.addr.host.b[i] = 65535
    /\ call.out.remote =
          V6Text(<<65535, 65535, 65535, 65535, 0, 0, 0, 0>>, FALSE)
    /\ LineFor(V6Text(<<65535, 65535, 65535, 65535, 0, 0, 0, 0>>, FALSE))
          = call.out

(***************************************************************************)
(* The entries of Log and Err.                                             *)
(***************************************************************************)
\* The target of an entry of goCustomLog: what stands between the method
\* and the protocol.
Target(entry) ==
    LET i == CHOOSE k \in 1..Len(entry.text) :
                 /\ entry.text[k] = "HTTP/intern"
                 /\ \A j \in (k + 1)..Len(entry.text) :
                       entry.text[j] # "HTTP/intern"
    IN  SubSeq(entry.text, 8, i - 2)

\* The fixed layout around the fields of an entry of goCustomLog.
CustomLayout(method, target, sender) ==
    <<" - ", "alCurrentUser", " [", "time", "] \"", method, " ">>
        \o target
        \o <<" ", "HTTP/intern", "\" ", "%d", " ", "%d", " \"">>
        \o sender
        \o <<"\" \"", "mwat56/apachelogger", "\"", "\n">>

\* C21: an entry of Log or Err has the ten fields of the layout, with
\* 127.0.0.1 as remote address, LOG or ERR as method, the message as
\* target, HTTP/intern as protocol, 500 as status, the length of the
\* target as size, and the sender, or the program's name for an empty
\* sender, as referrer.
C21_CustomLayout ==
    call.fn = "goCustomLog"
    => /\ call.out.remote = Loopback
       /\ call.out.status = 500
       /\ call.out.text =
             CustomLayout(call.arg.aMethod, Target(call.out),
                          IF call.arg.aSender = <<>> THEN <<"os.Args[0]">>
                          ELSE call.arg.aSender)
       /\ call.out.size = Len(Target(call.out))
       /\ call.arg.aMessage = <<>> => Target(call.out) = <<"P", "I", "N", "G">>
       /\ (/\ call.arg.aMessage # <<>>
           /\ \A i \in 1..Len(call.arg.aMessage) :
                 call.arg.aMessage[i] = "a")
             => Target(call.out) = call.arg.aMessage

\* Err with no sender and a message of two newlines: the target is
\* "; ;", the size 3.
C21_Witness ==
    /\ call.fn = "goCustomLog"
    /\ call.arg.aMethod = "ERR"
    /\ call.arg.aSender = <<>>
    /\ call.arg.aMessage = <<"\n", "\n">>
    /\ Target(call.out) = <<";", " ", ";">>
    /\ call.out.size = 3

\* The number of positions of a text that hold the character ch.
Count(text, ch) == Cardinality({i \in 1..Len(text) : text[i] = ch})

\* C22: for a message that is not empty the target has no newline and no
\* tab, a "; " or, at its end, a ";" for every newline of the message, no
\* two adjacent spaces and no white space at either end.
C22_Sanitised ==
    (call.fn = "goCustomLog" /\ call.arg.aMessage # <<>>)
    => LET t == Target(call.out)
       IN  /\ Count(t, "\n") = 0
           /\ Count(t, "\t") = 0
           /\ Count(t, ";") = Count(call.arg.aMessage, "\n")
           /\ \A i \in 1..(Len(t) - 1) : ~(t[i] = " " /\ t[i + 1] = " ")
           /\ t # <<>> => (t[1] \notin Space /\ t[Len(t)] \notin Space)

\* C23: an empty message is logged as PING with size 4, and no entry of
\* Log or Err has an empty target, whatever the message.
C23_NeverEmptyTarget ==
    call.fn = "goCustomLog"
    => /\ call.arg.aMessage = <<>>
             => (Target(call.out) = <<"P", "I", "N", "G">>
                    /\ call.out.size = 4)
       /\ Target(call.out) # <<>>

(***************************************************************************)
(* The sink of the server's error log, with what its Write returns.  The   *)
(* consumers of the queues are not scheduled, so that the queues fill.     *)
(***************************************************************************)
\* tLogLog.Write (lines 148-156) for a message of n bytes: result is
\* len(aMessage) and the error is nil.
tLogLogWriteCall(n) ==
    /\ Len(calls) < MaxCalls
    /\ tLogLogStart(n)
    /\ calls' = Append(calls, [op |-> "tLogLog.Write", n |-> n, code |-> 0,
                               wrapped |-> <<>>, ret |-> <<n, "nil">>])
    /\ UNCHANGED <<lw, call, queue, enq, alErrorQueue, alWrapOnce, handler,
                   fault, consumer, wr, files, gone, today,
                   alLastLoggingDate, failedDest, dest, requests>>

ErrorLogNext ==
    \/ \E n \in MsgLens : tLogLogWriteCall(n)
    \/ Err
    \/ \E names \in WrapCalls, env \in WrapEnv :
          Wrap(names[1], names[2], env[1], env[2], env[3])
    \/ \E s \in senders : Send(s)

ErrorLogSpec == Init /\ [][ErrorLogNext]_vars

\* A call of tLogLog.Write returns the length of its message and nil,
\* touches no queue, and starts one goroutine that will send an
\* errorLogger entry to the queue alErrorQueue refers to at that moment
\* when the message is not empty, none when it is empty.
C24_WriteStep ==
    calls' # calls
    => LET c == calls'[Len(calls')]
       IN  /\ c.ret = <<c.n, "nil">>
           /\ UNCHANGED <<queue, enq, gone>>
           /\ IF c.n > 0
              THEN \E s \in senders' \ senders :
                      /\ senders' = senders \cup {s}
                      /\ s.m.kind = "errorLogger"
                      /\ s.ch = alErrorQueue
              ELSE senders' = senders

\* tLogLog.Write completes in every state in which the program runs.
C24_NeverBlocks ==
    (Running /\ nextId <= MaxMsgs /\ Len(calls) < MaxCalls)
    => \A n \in MsgLens : ENABLED tLogLogWriteCall(n)

\* C24: tLogLog.Write returns (len(message), nil) without blocking, and
\* dispatches one ERR entry of sender errorLogger to the current error
\* queue for a message that is not empty, nothing for an empty one.
C24_ErrorLogSink == []C24_NeverBlocks /\ [][C24_WriteStep]_vars

\* The sink has returned while the error queue was full with no consumer
\* taking from it; the goroutine it started is still blocked.
C24_Witness ==
    /\ calls # <<>>
    /\ calls[Len(calls)].ret = <<1, "nil">>
    /\ \E s \in senders :
          /\ s.m.kind = "errorLogger"
          /\ s.onFull /\ QueueFull(s.ch) /\ ~queue[s.ch].closed

(***************************************************************************)
(* A request through the handler that Wrap returns, with the tLogWriter    *)
(* the downstream handler writes to.  call says whether ServeHTTP is       *)
(* running; the goroutine goWebLog holds the only reference to the         *)
(* request's tLogWriter once the handler has returned, so the writer is    *)
(* kept with the goroutine.  The consumers are not scheduled, and the      *)
(* connection takes all that the handler writes.                           *)
(***************************************************************************)
InServeHTTP == [fn |-> "ServeHTTP", arg |-> <<>>, out |-> <<>>]

\* Lines 601-602: the tLogWriter is made and aHandler.ServeHTTP called.
ServeStart ==
    /\ Running
    /\ handler
    /\ call = NoCall
    /\ nextId <= MaxMsgs
    /\ call' = InServeHTTP
    /\ lw' = NewLogWriter
    /\ calls' = <<>>
    /\ UNCHANGED unitFrame

\* The downstream handler calls Write or WriteHeader on the tLogWriter.
HandlerWrite(n, res, err) == call = InServeHTTP /\ tLogWriterWrite(n, res, err)

HandlerWriteHeader(aStatus) ==
    call = InServeHTTP /\ tLogWriterWriteHeader(aStatus)

\* Lines 602-605: ServeHTTP has returned, recover() yields nil and
\* `go goWebLog(lw, aRequest, alAccessQueue)` starts the goroutine.
ServeReturn ==
    /\ call = InServeHTTP
    /\ senders' = senders \cup
          {[m |-> [id |-> nextId, kind |-> "request"], ch |-> alAccessQueue,
            onFull |-> QueueFull(alAccessQueue) /\ Stalled(alAccessQueue),
            lw |-> lw]}
    /\ nextId' = nextId + 1
    /\ requests' = [requests EXCEPT !["return"] = @ + 1]
    /\ call' = NoCall
    /\ lw' = NewLogWriter
    /\ calls' = <<>>
    /\ UNCHANGED <<queue, enq, alErrorQueue, alWrapOnce, handler, fault,
                   consumer, wr, files, gone, today, alLastLoggingDate,
                   failedDest, dest>>

\* A wrapped handler that starts goWebLog in a deferred function: the
\* request that panics gets its access entry too.
ServePanicLogged ==
    /\ call = InServeHTTP
    /\ nextId <= MaxMsgs
    /\ senders' = senders \cup
          {[m |-> [id |-> nextId, kind |-> "catchPanic"], ch |-> alErrorQueue,
            onFull |-> QueueFull(alErrorQueue) /\ Stalled(alErrorQueue)],
           [m |-> [id |-> nextId, kind |-> "request"], ch |-> alAccessQueue,
            onFull |-> QueueFull(alAccessQueue) /\ Stalled(alAccessQueue),
            lw |-> lw]}
    /\ nextId' = nextId + 1
    /\ requests' = [requests EXCEPT !["panic"] = @ + 1]
    /\ call' = NoCall
    /\ lw' = NewLogWriter
    /\ calls' = <<>>
    /\ UNCHANGED <<queue, enq, alErrorQueue, alWrapOnce, handler, fault,
                   consumer, wr, files, gone, today, alLastLoggingDate,
                   failedDest, dest>>

\* Lines 590-597: ServeHTTP has panicked, the deferred function recovers
\* and calls Err; no goWebLog is started.
ServePanic ==
    /\ call = InServeHTTP
    /\ CatchPanic
    /\ requests' = [requests EXCEPT !["panic"] = @ + 1]
    /\ call' = NoCall
    /\ lw' = NewLogWriter
    /\ calls' = <<>>
    /\ UNCHANGED <<queue, enq, alErrorQueue, alWrapOnce, handler, consumer,
                   wr, files, gone, today, alLastLoggingDate, failedDest,
                   dest>>

\* An entry that carries the fields of a tLogWriter after line 507 has
\* set them to zero.
AccessEntryAfterReset(s) ==
    [id |-> s.m.id, kind |-> "request", status |-> 0, size |-> 0]

\* Lines 494-505: the entry that goWebLog formats, with aLogger.status and
\* aLogger.size as they are when the goroutine runs.
AccessEntry(s) ==
    [id |-> s.m.id, kind |-> "request", status |-> s.lw.status,
     size |-> s.lw.size]

\* goWebLog (lines 483-508): the send of the entry, which blocks while the
\* channel is full; line 507 then clears the tLogWriter, which nothing
\* refers to any more.
goWebLog(s) ==
    /\ Running
    /\ s \in senders
    /\ s.m.kind = "request"
    /\ IF queue[s.ch].closed
       THEN SendRecover(s)
       ELSE /\ ~QueueFull(s.ch)
            /\ queue' = [queue EXCEPT ![s.ch].buf = Append(@, AccessEntry(s))]
            /\ enq' = [enq EXCEPT ![s.ch] = Append(@, AccessEntry(s))]
            /\ UNCHANGED <<gone, fault>>
    /\ senders' = senders \ {s}
    /\ UNCHANGED <<unitVars, alErrorQueue, alWrapOnce, handler, consumer, wr,
                   files, nextId, today, alLastLoggingDate, requests,
                   failedDest, dest>>

\* The server wraps its handler with an access log and an error log that
\* open, the error log being the access log's file or another.
RequestNext ==
    \/ \E err \in {"./access.log", "/var/log/error.log"} :
          Wrap("access.log", err, TRUE, TRUE, TRUE)
    \/ ServeStart
    \/ \E n \in {0, 2} : HandlerWrite(n, n, "nil")
    \/ HandlerWriteHeader(404)
    \/ ServeReturn
    \/ ServePanic
    \/ \E s \in senders : goWebLog(s)
    \/ \E s \in senders : s.m.kind # "request" /\ Send(s)

RequestSpec == Init /\ [][RequestNext]_vars

\* The status a tLogWriter holds after the calls cs.
RecordedStatus(cs) ==
    LET h == LastHeader(cs)
    IN  IF h = 0 THEN (IF cs = <<>> THEN 0 ELSE 200)
        ELSE IF cs[h].code # 0 \/ h = Len(cs) THEN cs[h].code
        ELSE 200

\* The access entries of requests, among the messages of a sequence.
RequestEntries(msgs) == {msgs[i] : i \in {j \in 1..Len(msgs) : msgs[j].kind = "request"}}

\* The goroutines goWebLog that have not sent yet.
RequestSenders == {s \in senders : s.m.kind = "request"}

\* The return of ServeHTTP starts one goWebLog for the access queue, which
\* holds the status and the size that the handler's calls have left.
C25_ReturnStep ==
    requests'["return"] # requests["return"]
    => /\ call = InServeHTTP /\ call' = NoCall
       /\ requests'["return"] = requests["return"] + 1
       /\ UNCHANGED <<queue, enq>>
       /\ \E s \in senders' \ senders :
             /\ senders' = senders \cup {s}
             /\ s.m.kind = "request"
             /\ s.ch = alAccessQueue
             /\ s.lw.status = RecordedStatus(calls)
             /\ s.lw.size = SumWritten(calls)

\* No goWebLog is started but by a handler that returns.
C25_OnlyOnReturn ==
    (\E s \in senders' \ senders : s.m.kind = "request")
    => requests'["return"] = requests["return"] + 1

\* The entry that reaches the access queue carries the status and the size
\* its goroutine was started with.
C25_SendStep ==
    \A e \in RequestEntries(enq'["access"]) \ RequestEntries(enq["access"]) :
        \E s \in senders \ senders' :
            /\ s.m.id = e.id
            /\ e.status = s.lw.status
            /\ e.size = s.lw.size

\* Every request that returned has one access entry, sent or about to be.
C25_OneEntry ==
    LET sent == {e.id : e \in RequestEntries(enq["access"])}
        tosend == {s.m.id : s \in RequestSenders}
    IN  /\ sent \cap tosend = {}
        /\ Cardinality(sent \cup tosend) = requests["return"]
        /\ Cardinality(RequestEntries(enq["access"])) = Cardinality(sent)
        /\ Cardinality(RequestSenders) = Cardinality(tosend)
        /\ call = InServeHTTP => (lw.status = RecordedStatus(calls)
                                    /\ lw.size = SumWritten(calls))

\* C25: a request whose handler returns has the handler called once and
\* one access entry dispatched to the access queue, after ServeHTTP has
\* returned, with the status and the byte count as they stood then.
C25_OneAccessEntry ==
    /\ []C25_OneEntry
    /\ [][C25_ReturnStep]_vars
    /\ [][C25_OnlyOnReturn]_vars
    /\ [][C25_SendStep]_vars

\* A handler wrote two bytes twice and set 404 in between; its entry has
\* reached the access queue with status 404 and size 4, and a second
\* request is being served.
C25_Witness ==
    /\ \E e \in RequestEntries(enq["access"]) : e.status = 404 /\ e.size = 4
    /\ call = InServeHTTP
    /\ requests["return"] = 1

(***************************************************************************)
(* getPath and getReferrer.                                                *)
(***************************************************************************)
\* The first position of a text that holds ch, or 0.
Index(text, ch) ==
    IF Count(text, ch) = 0 THEN 0
    ELSE CHOOSE i \in 1..Len(text) :
            text[i] = ch /\ \A j \in 1..(i - 1) : text[j] # ch

\* C26: getPath gives the path, then "?" and the query exactly when the
\* query is not empty, then "#" and the fragment exactly when the fragment
\* is not empty, and the empty string for a URL that has none of them.
C26_PathQueryFragment ==
    call.fn = "getPath"
    => LET u == call.arg
           out == call.out
           q == Index(out, "?")
           f == Index(out, "#")
       IN  /\ SubSeq(out, 1, Len(u.path)) = u.path
           /\ (q > 0) = (u.query # <<>>)
           /\ (f > 0) = (u.fragment # <<>>)
           /\ Count(out, "?") <= 1 /\ Count(out, "#") <= 1
           /\ q > 0 => /\ q = Len(u.path) + 1
                       /\ SubSeq(out, q + 1, q + Len(u.query)) = u.query
           /\ f > 0 => /\ f = Len(out) - Len(u.fragment)
                       /\ SubSeq(out, f + 1, Len(out)) = u.fragment
           /\ (q > 0 /\ f > 0) => f = q + Len(u.query) + 1
           /\ Len(out) = Len(u.path)
                           + (IF q > 0 THEN 1 + Len(u.query) ELSE 0)
                           + (IF f > 0 THEN 1 + Len(u.fragment) ELSE 0)
           /\ (u.path = <<>> /\ u.query = <<>> /\ u.fragment = <<>>)
                 => out = <<>>

\* A URL with a path, a query and a fragment.
C26_Witness ==
    /\ call.fn = "getPath"
    /\ call.arg.path = <<"/">>
    /\ call.arg.query = <<"a">>
    /\ call.arg.fragment = <<"a">>
    /\ call.out = <<"/", "?", "a", "#", "a">>

\* C27: getReferrer gives the header Referer when it is not empty, else
\* the header Referrer when it is not empty, else "-", whatever a header
\* of another name holds.
C27_RefererFirst ==
    call.fn = "getReferrer"
    => /\ call.arg.referer # <<>> => call.out = call.arg.referer
       /\ (call.arg.referer = <<>> /\ call.arg.referrer # <<>>)
             => call.out = call.arg.referrer
       /\ (call.arg.referer = <<>> /\ call.arg.referrer = <<>>)
             => call.out = <<"-">>

\* All three headers are set, to three values; the result is Referer's.
C27_Witness ==
    /\ call.fn = "getReferrer"
    /\ call.arg.referer = <<"a">>
    /\ call.arg.referrer = <<" ">>
    /\ call.arg.referrrer = <<"a", "a">>
    /\ call.out = <<"a">>

(***************************************************************************)
(* compareDayStamps called on its own, as Test_compareDayStamps calls it   *)
(* after setting alLastLoggingDate, while the days pass.                   *)
(***************************************************************************)
\* The days of the calendar's years 0 to MaxDay.
Days == 0..(DaysPerMonth * MonthsPerYear * (MaxDay + 1) - 1)

DayInit ==
    /\ today \in Days
    /\ alLastLoggingDate \in Days
    /\ queue = [c \in Chans |->
                  [buf |-> <<>>, closed |-> FALSE, atClose |-> <<>>]]
    /\ enq = [c \in Chans |-> <<>>]
    /\ alErrorQueue = "error"
    /\ alWrapOnce = FALSE
    /\ handler = FALSE
    /\ fault = "none"
    /\ consumer = [c \in Chans |-> "none"]
    /\ wr = [c \in Chans |-> NoWriter]
    /\ files = [p \in AbsPaths |-> <<>>]
    /\ senders = {}
    /\ nextId = 1
    /\ gone = {}
    /\ requests = [o \in Outcomes |-> 0]
    /\ failedDest = {}
    /\ dest = [c \in Chans |-> ""]
    /\ lw = NewLogWriter
    /\ calls = <<>>
    /\ call = NoCall

\* A call of compareDayStamps (lines 175-190), with the time it read, the
\* date it found stored and what it returned.
compareDayStampsCall ==
    /\ Len(calls) < MaxCalls
    /\ calls' = Append(calls, [op |-> "compareDayStamps", now |-> today,
                               last |-> alLastLoggingDate,
                               ret |-> compareDayStamps])
    /\ alLastLoggingDate' = IF compareDayStamps THEN today
                            ELSE alLastLoggingDate
    /\ UNCHANGED <<lw, call, queue, enq, alErrorQueue, alWrapOnce, handler,
                   fault, consumer, wr, files, senders, nextId, gone, today,
                   requests, failedDest, dest>>

DayNext ==
    \/ compareDayStampsCall
    \/ Midnight

DaySpec == DayInit /\ [][DayNext]_vars

\* A call returns true exactly when the date of the current time is not
\* the stored date, then stores the current time, and else leaves the
\* stored date as it is.
C28_CallStep ==
    calls' # calls
    => LET c == calls'[Len(calls')]
       IN  /\ c.ret = (Date(today) # Date(alLastLoggingDate))
           /\ c.ret => alLastLoggingDate' = today
           /\ ~c.ret => alLastLoggingDate' = alLastLoggingDate

\* Of two calls in a row the second returns true exactly when a midnight
\* has passed between them.
C28_OncePerDay ==
    \A i \in 1..(Len(calls) - 1) :
        calls[i + 1].ret = (calls[i + 1].now # calls[i].now)

\* C28: compareDayStamps returns true exactly when year, month or day of
\* the current time differ from the stored date's, earlier or later; it
\* then stores the current time, so that the next call on that day returns
\* false, and else leaves the stored date; across one midnight it returns
\* true once.
C28_DayChange == []C28_OncePerDay /\ [][C28_CallStep]_vars

\* Two calls on one day, midnight, and a third call: true only then.
C28_Witness ==
    /\ Len(calls) = 3
    /\ calls[1].now = calls[1].last
    /\ ~calls[1].ret /\ ~calls[2].ret /\ calls[3].ret
    /\ calls[3].now = calls[1].now + 1
    /\ alLastLoggingDate = today

(***************************************************************************)
(* The bounded queue.                                                      *)
(***************************************************************************)
\* No channel holds more than its capacity.
C29_Bounded == \A c \in Chans : Len(queue[c].buf) <= QueueCap

\* A goroutine that ends its send on an open channel has put its message
\* at the end of the channel, which had room for it.
C29_SendStep ==
    \A s \in senders :
        (s \notin senders' /\ ~queue[s.ch].closed) =>
            /\ Len(queue[s.ch].buf) < QueueCap
            /\ queue'[s.ch].buf = Append(queue[s.ch].buf, s.m)
            /\ gone' = gone

\* The message of a goroutine that waits to send on the writer's channel.
Waiting(id) == \E s \in senders : s.m.id = id /\ s.ch = WriterChan

\* The message is on the writer's file.
OnFile(id) == \E i \in 1..Len(Written(WriterChan)) : Written(WriterChan)[i].id = id

\* C29: a queue never holds more than its capacity, a full queue makes a
\* sender wait and never drops its message, and when the writer runs (its
\* file opens) the message of every waiting sender gets onto the file,
\* unless the channel is closed before.
C29_FullQueueBlocks ==
    /\ []C29_Bounded
    /\ [][C29_SendStep]_vars
    /\ Openable =>
          \A id \in 1..MaxMsgs :
              Waiting(id) ~> (OnFile(id) \/ queue[WriterChan].closed)

\* A goroutine waits on the full channel, which the writer, past its
\* start, is about to receive from.
C29_Witness ==
    /\ \E s \in senders :
          s.ch = WriterChan /\ QueueFull(s.ch) /\ ~queue[s.ch].closed
    /\ wr[WriterChan].pc = "select"

(***************************************************************************)
(* The batch loop of the writer.                                           *)
(***************************************************************************)
\* The writer is in or after a write of lines 428-439.
Writing == wr[WriterChan].pc \in {"write", "drainwrite"}

\* After a write the writer goes on with the batch loop when the length
\* check finds a message, and goes back to the select, with the timer set
\* again, only when it finds none.
C30_LengthCheck ==
    (Writing /\ wr'[WriterChan] # wr[WriterChan])
    => IF queue[WriterChan].buf # <<>>
       THEN wr'[WriterChan].pc = "drain"
       ELSE /\ wr'[WriterChan].pc = "select"
            /\ wr'[WriterChan].closeTimer \in Reset(wr[WriterChan].closeTimer)

\* The batch loop takes the oldest message of the channel and writes it
\* next, at the end of the file.
C30_BatchStep ==
    /\ (wr[WriterChan].pc = "drain" /\ wr'[WriterChan] # wr[WriterChan])
          => /\ wr'[WriterChan].pc = "drainwrite"
             /\ wr'[WriterChan].txt = <<Head(queue[WriterChan].buf)>>
             /\ queue'[WriterChan].buf = Tail(queue[WriterChan].buf)
    /\ (wr[WriterChan].pc = "drainwrite" /\ wr'[WriterChan] # wr[WriterChan])
          => files' = [files EXCEPT ![wr[WriterChan].aLogFile] =
                                        @ \o wr[WriterChan].txt]

\* The batch loop receives only when the channel holds a message: it has
\* counted at least one that nobody else takes.
C30_NeverWaits ==
    wr[WriterChan].pc = "drain"
    => /\ 0 < wr[WriterChan].cLen
       /\ wr[WriterChan].cLen <= Len(queue[WriterChan].buf)

WrapNext ==
    \/ \E acc \in AccessNames, err \in ErrorNames, wdOk, okA, okE \in BOOLEAN :
          Wrap(acc, err, wdOk, okA, okE)
    \/ Log
    \/ Err
    \/ \E s \in senders : Send(s)
    \/ \E c \in Chans : WriterStart(c)
    \/ \E c \in Chans : goIgnoreLog(c)

WrapSpec == Init /\ [][WrapNext]_vars

\* While the process lives after the initialisation, the access queue and
\* the queue alErrorQueue refers to have a consumer each and are open; a
\* merged error queue is closed and has none; before the initialisation
\* there is no consumer and nothing is closed.
C31_Consumers ==
    /\ ~alWrapOnce =>
          /\ \A c \in Chans : consumer[c] = "none" /\ ~queue[c].closed
          /\ alErrorQueue = "error"
    /\ (alWrapOnce /\ Running) =>
          /\ consumer[alAccessQueue] \in {"writer", "ignore"}
          /\ ~queue[alAccessQueue].closed
          /\ alErrorQueue = "error" =>
                /\ consumer["error"] \in {"writer", "ignore"}
                /\ ~queue["error"].closed
          /\ alErrorQueue = alAccessQueue =>
                /\ consumer["error"] = "none"
                /\ queue["error"].closed
    /\ \A c \in Chans :
          consumer[c] = "writer" <=> wr[c].pc # "off"

\* Once the initialisation has run, no step gives a queue a consumer,
\* starts a writer, closes a queue or redirects alErrorQueue.
C31_LaterCalls ==
    alWrapOnce
    => /\ UNCHANGED <<alWrapOnce, consumer, alErrorQueue, dest>>
       /\ \A c \in Chans :
             /\ queue'[c].closed = queue[c].closed
             /\ wr'[c].aLogFile = wr[c].aLogFile
             /\ wr[c].pc = "off" => wr'[c].pc = "off"

\* A queue is closed only by the initialisation, and only the error queue
\* when it is merged into the access queue.
C31_CloseStep ==
    \A c \in Chans :
        (queue'[c].closed # queue[c].closed)
        => /\ c = "error"
           /\ ~queue[c].closed
           /\ ~alWrapOnce /\ alWrapOnce'
           /\ alErrorQueue' = alAccessQueue
           /\ consumer'["error"] = "none"

\* C31: after any number of Wrap calls the initialisation has run once:
\* every queue in use has its one consumer, only the error queue is ever
\* closed, once and on the merge, and a later call starts nothing.
C31_InitialisedOnce ==
    /\ []C31_Consumers
    /\ [][C31_LaterCalls]_vars
    /\ [][C31_CloseStep]_vars

\* The sinks are merged, the error queue is closed, and the one writer
\* has started.
C31_Witness ==
    /\ alWrapOnce /\ handler
    /\ alErrorQueue = alAccessQueue
    /\ queue["error"].closed
    /\ consumer = [c \in Chans |-> IF c = "access" THEN "writer" ELSE "none"]
    /\ wr["access"].pc = "select"

\* The select of writer c takes a message on a day other than the stored
\* one, and so puts the separator into the file of c.
C32_Rollover(c) ==
    /\ IsWriter(c)
    /\ wr[c].pc = "select"
    /\ wr'[c].pc \in {"open", "write"}
    /\ compareDayStamps

\* C32: the date of the last separator belongs to one writer: when a
\* writer puts the separator of a new day into its file, the writer of
\* the other file still finds the day changed, and so puts the separator
\* before the next message its select takes.
C32_OwnSeparator ==
    [][\A c \in Chans :
          C32_Rollover(c)
          => \A o \in Chans \ {c} : IsWriter(o) => compareDayStamps']_vars

\* A file holds what it held, and more at its end.
Appended(old, new) ==
    /\ Len(old) < Len(new)
    /\ SubSeq(new, 1, Len(old)) = old

\* Writer c writes its text, from the select or from the batch loop, to
\* the end of its file.
C33_WriteStep(c) ==
    /\ IsWriter(c)
    /\ wr[c].pc \in {"write", "drainwrite"}
    /\ wr'[c].pc \in {"select", "drain"}
    /\ wr[c].txt # <<>>
    /\ files' = [files EXCEPT ![wr[c].aLogFile] = @ \o wr[c].txt]

\* C33: the content of a file changes only in a write step of a writer
\* goroutine, and then by text put at its end: the callers of Log and Err,
\* the error log's Write, the requests, Wrap, the idle close and the
\* re-open leave every file as it is.
C33_AppendOnly ==
    [][files' # files
       => /\ \E c \in Chans : C33_WriteStep(c)
          /\ \A f \in DOMAIN files :
                files'[f] = files[f] \/ Appended(files[f], files'[f])]_vars

\* A file that holds an entry has been closed and is open again, after an
\* attempt that failed, and holds the entry still.
C33_Witness ==
    \E c \in Chans :
        /\ IsWriter(c)
        /\ wr[c].pc = "write"
        /\ wr[c].failed
        /\ wr[c].logFile = "open"
        /\ files[wr[c].aLogFile] # <<>>

\* Where writer c opens, it holds no handle; where it writes or is in the
\* batch loop, it holds one.
C34_Handle ==
    \A c \in Chans :
        /\ wr[c].logFile \in {"nil", "open"}
        /\ wr[c].pc = "open" => wr[c].logFile = "nil"
        /\ wr[c].pc \in {"write", "drain", "drainwrite"}
              => wr[c].logFile = "open"

\* A handle is got by the open loop only and given up in the select only;
\* a file changes only under a handle.
C34_HandleStep ==
    \A c \in Chans :
        /\ (wr[c].logFile = "nil" /\ wr'[c].logFile = "open")
              => wr[c].pc = "open"
        /\ (wr[c].logFile = "open" /\ wr'[c].logFile = "nil")
              => wr[c].pc = "select"
        /\ (IsWriter(c) /\ files'[wr[c].aLogFile] # files[wr[c].aLogFile])
              => wr[c].logFile = "open" /\ wr'[c].logFile = "open"

\* C34: a writer holds at most one handle: it opens only while it holds
\* none, and every write, of the message the select received and of the
\* messages of the batch loop, is made under an open handle, also after
\* the idle timer has closed the file.
C34_OneHandle ==
    /\ []C34_Handle
    /\ [][C34_HandleStep]_vars

\* The idle timer has closed a file that holds an entry, the next message
\* is received, and the writer opens the file before it writes.
C34_Witness ==
    /\ wr[WriterChan].pc = "open"
    /\ wr[WriterChan].logFile = "nil"
    /\ wr[WriterChan].txt # <<>>
    /\ files[wr[WriterChan].aLogFile] # <<>>

\* Two goroutines wait to send to channel c, which is open and has room.
Pending(s, o) ==
    /\ s # o
    /\ s.ch = o.ch
    /\ Running
    /\ ~queue[s.ch].closed
    /\ ~QueueFull(s.ch)

\* C35: nothing orders the sends of two pending goroutines: whichever of
\* them was started first, each can be the next to put its entry on the
\* channel, and so be the first on the file.
C35_EitherFirst ==
    \A s \in senders, o \in senders :
        Pending(s, o) => ENABLED Send(s) /\ ENABLED Send(o)

\* Two Log calls of one caller are on the file in the other order.
C35_Witness ==
    \E f \in DOMAIN files :
        \E i \in DOMAIN files[f], j \in DOMAIN files[f] :
            /\ i < j
            /\ IsEntry(files[f][i]) /\ IsEntry(files[f][j])
            /\ files[f][i].kind = "LOG" /\ files[f][j].kind = "LOG"
            /\ files[f][j].id < files[f][i].id

\* A message that can no longer reach a file: it is on a channel that has
\* no consumer, or its sender found or will find its channel closed.
Lost ==
    UNION {Range(queue[c].buf) : c \in {x \in Chans : consumer[x] = "none"}}
        \cup {g.m : g \in {x \in gone : x.by = "closed"}}
        \cup {s.m : s \in {x \in senders : queue[x.ch].closed}}

\* C36: the initialisation loses no message: once Wrap has started the
\* sinks, no message handed to Err or Log before it is on a channel that
\* nobody reads or is dropped for a closed channel, so that each can still
\* be written, whatever the destinations are and also when the error queue
\* is closed and redirected.
C36_NotLostByInit ==
    (alWrapOnce /\ Running) => Lost = {}

(***************************************************************************)
(* The request whose handler panics.                                       *)
(***************************************************************************)
\* The step in which a request ends by a panic starts one goroutine, the
\* one of Err with the entry of the panic guard for the error queue, and
\* puts nothing on a channel.
C37_PanicStep ==
    requests'["panic"] # requests["panic"]
    => /\ call = InServeHTTP /\ call' = NoCall
       /\ requests'["panic"] = requests["panic"] + 1
       /\ requests'["return"] = requests["return"]
       /\ UNCHANGED <<queue, enq, fault>>
       /\ \E s \in senders' \ senders :
             /\ senders' = senders \cup {s}
             /\ s.m = [id |-> nextId, kind |-> "catchPanic"]
             /\ s.ch = alErrorQueue

\* The access entries, sent or to be sent, are as many as the requests
\* that returned; the entries of the panic guard as many as the panics.
C37_Counted ==
    LET entries == UNION {Range(enq[c]) : c \in Chans}
                       \cup {s.m : s \in senders}
    IN  /\ Cardinality({m.id : m \in {e \in entries : e.kind = "request"}})
              = requests["return"]
        /\ Cardinality({m.id : m \in {e \in entries : e.kind = "catchPanic"}})
              = requests["panic"]

\* C37: a request whose handler panics gets no access entry: the one entry
\* dispatched for it is the entry of the panic guard, for the error queue.
C37_PanicNotLogged ==
    /\ []C37_Counted
    /\ [][C37_PanicStep]_vars

\* The one request served has ended by a panic: the entry of the panic
\* guard is on a channel and there is no access entry, sent or to send.
C37_Witness ==
    /\ requests = [return |-> 0, panic |-> 1]
    /\ call = NoCall
    /\ \E c \in Chans : \E e \in Range(enq[c]) : e.kind = "catchPanic"
    /\ \A c \in Chans : RequestEntries(enq[c]) = {}
    /\ RequestSenders = {}

\* The statuses a handler of RequestSpec sets with WriteHeader.
SetStatuses == {404}

\* C38: the status of an access entry is 200 or the status the handler
\* set last, never 0: the request whose handler returns without a call of
\* Write or WriteHeader is logged with status 200 and size 0.
C38_StatusNeverZero ==
    \A c \in Chans : \A e \in RequestEntries(enq[c]) :
        /\ e.status \in {200} \cup SetStatuses
        /\ e.status # 0

====
